---- MODULE Spec2Model ----
(***************************************************************************)
(* A model of minidump-writer: the dump writer (MinidumpWriter::dump and   *)
(* DirSection), the ptrace dumper (LinuxPtraceDumper), the Linux process   *)
(* reader and the derived read operations, the stack sanitizer, the ELF    *)
(* file identifier, ModuleMemory and the Mach-O module reader.             *)
(*                                                                         *)
(* Each component is a state machine over its own variables and has its    *)
(* own specification; a specification leaves the other components'         *)
(* variables at their idle values.                                         *)
(***************************************************************************)
EXTENDS Integers, Sequences, FiniteSets, TLC

(***************************************************************************)
(* Bounds of the model.                                                    *)
(***************************************************************************)
\* threads of the target process listed in /proc/<pid>/task
NumThreads == 3
\* threads of the target that may die (be killed) during one dump
MaxDeaths == 1
\* the non-zero initial position of the sink (a dump appended to a file)
StartOffset == 3

(***************************************************************************)
(* State.                                                                  *)
(***************************************************************************)
VARIABLES
    \* one call of MinidumpWriter::dump
    pc,                 \* where dump is: "start", "suspend", "check", "gen", "resume", "drop", "returned"
    result,             \* what dump returns: "none" until it is decided
    skip_stacks_if_mapping_unreferenced,
    principal_mapping_address, \* "None", or Some address that is "mapped" or "unmapped"
    principal_mapping,  \* "None" or "Some" mapping
    file_errors,        \* the raw files that cannot be read in this run
    threads,            \* LinuxPtraceDumper.threads
    threads_suspended,  \* LinuxPtraceDumper.threads_suspended
    tstate,             \* per thread of the target: "running", "attached", "gone"
    sp_zero,            \* the threads whose stack pointer reads 0
    deaths,             \* threads that died so far
    gpc,                \* where generate_dump is: "header", "stream", "dirent", "flush", "done"
    stream,             \* the stream generate_dump is at, 0 for the header
    dirent,             \* the directory entry the stream writer returned
    buffer,             \* the in-memory DumpBuf
    sink,               \* the bytes of the destination
    sink_pos,           \* the cursor of the destination
    curr_idx,           \* DirSection.curr_idx
    dir_position,       \* DirSection.section.position
    destination_start_offset,
    last_position_written_to_file,
    \* one Linux ProcessReader and its callers
    style,              \* ProcessReader.style: the content of the OnceLock
    rcall,              \* per caller: the call of read it is in
    nreads,             \* calls of read begun so far
    \* the target's memory, as the derived read operations see it
    mem,                \* the byte at each address
    readable,           \* the addresses that can be read
    ra,                 \* one call of read_all
    sc,                 \* one call of copy_nul_terminated_string
    \* one call of sanitize_stack_copy
    san,
    \* the mappings of one LinuxPtraceDumper
    en,
    \* one call of elf_file_identifier_from_mapped_file
    elf,
    \* one ModuleMemory and the calls made on it
    mm,
    \* one call of the Mach-O ModuleReader::find_section
    mo,
    \* one LinuxPtraceDumper and the calls made on it
    qry,                \* one call of get_stack_info or get_thread_info_by_index
    calls,              \* the calls of suspend_threads, resume_threads and drop so far
    st                  \* one call of suspend_thread

dumpVars ==
    << pc, result, skip_stacks_if_mapping_unreferenced, principal_mapping_address,
       principal_mapping, file_errors, threads,
       threads_suspended, tstate, sp_zero, deaths, gpc, stream, dirent, buffer,
       sink, sink_pos, curr_idx, dir_position, destination_start_offset,
       last_position_written_to_file >>
readerVars == << style, rcall, nreads >>
memVars == << mem, readable >>

moduleVars == << elf, mm, mo >>
dumperVars == << qry, calls, st >>

vars == << dumpVars, readerVars, memVars, ra, sc, san, en, moduleVars, dumperVars >>

\* what an action of one component leaves alone
notDump == << readerVars, memVars, ra, sc, san, en, moduleVars, dumperVars >>
notReader == << dumpVars, memVars, ra, sc, san, en, moduleVars, dumperVars >>
notReadAll == << dumpVars, readerVars, sc, san, en, moduleVars, dumperVars >>
notString == << dumpVars, readerVars, ra, san, en, moduleVars, dumperVars >>
notSanitizer == << dumpVars, readerVars, memVars, ra, sc, en, moduleVars, dumperVars >>
notEnumerator == << dumpVars, readerVars, memVars, ra, sc, san, moduleVars, dumperVars >>
notElf == << dumpVars, readerVars, memVars, ra, sc, san, en, mm, mo, dumperVars >>
notModuleMemory == << dumpVars, readerVars, memVars, ra, sc, san, en, elf, mo, dumperVars >>
notMachO == << dumpVars, readerVars, memVars, ra, sc, san, en, elf, mm, dumperVars >>
notQuery == << dumpVars, readerVars, memVars, ra, sc, san, en, moduleVars, calls, st >>
notCalls == << readerVars, memVars, ra, sc, san, en, moduleVars, qry, st >>
notSuspendThread == << dumpVars, readerVars, memVars, ra, sc, san, en, moduleVars, qry, calls >>

inputVars == << skip_stacks_if_mapping_unreferenced, principal_mapping_address, file_errors, sp_zero >>
configVars == << inputVars, principal_mapping >>
threadVars == << threads, threads_suspended, tstate, deaths >>
sinkVars == << sink, sink_pos >>
genVars ==
    << gpc, stream, dirent, buffer, curr_idx, dir_position,
       destination_start_offset, last_position_written_to_file >>

(***************************************************************************)
(* Bytes and little-endian integers (the dump is written on x86).          *)
(***************************************************************************)
Max(a, b) == IF a >= b THEN a ELSE b
Min(a, b) == IF a <= b THEN a ELSE b

Zeros(n) == [i \in 1..n |-> 0]

\* u32::to_le_bytes
U32LE(v) == << v % 256, (v \div 256) % 256, (v \div 65536) % 256, (v \div 16777216) % 256 >>

\* u32::from_le_bytes of the 4 bytes of s that start at 0-based offset off
FromU32LE(s, off) == s[off + 1] + 256 * s[off + 2] + 65536 * s[off + 3] + 16777216 * s[off + 4]

\* s[from..to) with 0-based offsets
Slice(s, from, to) == [i \in 1..(to - from) |-> s[from + i]]

\* a positioned write of bytes at 0-based pos into a growable byte vector or
\* file: the bytes at [pos, pos+len) are replaced, a hole is zero-filled
WriteAt(s, pos, bytes) ==
    [i \in 1..Max(Len(s), pos + Len(bytes)) |->
        IF i > pos /\ i <= pos + Len(bytes) THEN bytes[i - pos]
        ELSE IF i <= Len(s) THEN s[i] ELSE 0]

(***************************************************************************)
(* The minidump format (crate::minidump_format).                           *)
(***************************************************************************)
\* size_of::<MDRawHeader>()
SizeOfHeader == 32
\* size_of::<MDRawDirectory>(): stream_type, location.data_size, location.rva
SizeOfDirectory == 12
\* "MDMP"
MD_HEADER_SIGNATURE == 1347241037
MD_HEADER_VERSION == 42899
\* the number of directory entries generate_dump reserves
num_writers == 13

\* MDRawDirectory as it lies in the buffer
EncodeDirectory(d) == U32LE(d.stream_type) \o U32LE(d.data_size) \o U32LE(d.rva)
DecodeDirectory(s, off) ==
    [stream_type |-> FromU32LE(s, off), data_size |-> FromU32LE(s, off + 4),
     rva |-> FromU32LE(s, off + 8)]
\* MDRawDirectory::default()
DefaultDirectory == [stream_type |-> 0, data_size |-> 0, rva |-> 0]

\* MDRawHeader as it lies in the buffer
EncodeHeader(h) ==
    U32LE(h.signature) \o U32LE(h.version) \o U32LE(h.stream_count)
      \o U32LE(h.stream_directory_rva) \o U32LE(h.checksum)
      \o U32LE(h.time_date_stamp) \o U32LE(h.flags) \o U32LE(0)

(***************************************************************************)
(* The streams of generate_dump, in the order it writes them.  Stream 3    *)
(* (the app-memory list) has no directory entry of its own.                *)
(***************************************************************************)
StreamNames ==
    << "thread_list", "mappings", "app_memory", "memory_list", "exception",
       "systeminfo", "cpuinfo", "status", "lsb_release", "cmdline", "environ",
       "auxv", "maps", "dso_debug" >>
NumStreams == Len(StreamNames)
\* the streams written by write_file
FileStreams == 7..13
\* the stream writers whose error generate_dump propagates with `?`
FallibleStreams == {1, 2, 3, 4, 5, 6, 14}
\* every writer's result handed to write_to_file as Some(dirent)
HasDirentAlways(k) == TRUE

\* the streams for which write_to_file is given Some(dirent)
HasDirent(k) == k # 3

\* MDStreamType
StreamType(k) ==
    CASE k = 1 -> 3
      [] k = 2 -> 4
      [] k = 4 -> 5
      [] k = 5 -> 6
      [] k = 6 -> 7
      [] k = 7 -> 1197932547
      [] k = 8 -> 1197932548
      [] k = 9 -> 1197932549
      [] k = 10 -> 1197932550
      [] k = 11 -> 1197932551
      [] k = 12 -> 1197932552
      [] k = 13 -> 1197932553
      [] k = 14 -> 1197932554
      [] OTHER -> 0

Tids == 1..NumThreads

\* the target's threads as /proc/<pid>/task lists them
AllThreads == [i \in 1..NumThreads |-> i]
Range(s) == {s[i] : i \in DOMAIN s}

\* the bytes a stream writer appends for stream k: the thread list holds one
\* record per retained thread, the other bodies are opaque to the writer
StreamBody(k, thr) ==
    IF k = 1 THEN thr
    ELSE [i \in 1..((k + 1) % 3) |-> 100 + k]

\* the raw files generate_dump captures
Files ==
    {"cpuinfo", "status", "lsb_release", "os_release", "cmdline", "environ",
     "auxv", "maps"}
\* the file write_file is first given for file stream k
FileOf(k) ==
    CASE k = 7 -> "cpuinfo"
      [] k = 8 -> "status"
      [] k = 9 -> "lsb_release"
      [] k = 10 -> "cmdline"
      [] k = 11 -> "environ"
      [] k = 12 -> "auxv"
      [] k = 13 -> "maps"
\* what the file holds (opaque to the writer)
FileContent(f) ==
    CASE f = "cpuinfo" -> << 201, 201 >>
      [] f = "status" -> << 202 >>
      [] f = "lsb_release" -> << 203, 203 >>
      [] f = "os_release" -> << 204 >>
      [] f = "cmdline" -> << 205 >>
      [] f = "environ" -> << >>
      [] f = "auxv" -> << 207, 207 >>
      [] f = "maps" -> << 208 >>
\* the sets of unreadable files the model runs with
FileErrorCases ==
    {{}} \cup {{f} : f \in Files} \cup {{"lsb_release", "os_release"}, Files}

\* write_file's read limit: 1024 - 2 * size_of::<usize>()
buf_size == 1016

DumpInit ==
    /\ pc = "start"
    /\ result = "none"
    /\ skip_stacks_if_mapping_unreferenced \in BOOLEAN
    \* the address is looked at only when the flag is set
    /\ principal_mapping_address \in {"None", "mapped", "unmapped"}
    /\ ~skip_stacks_if_mapping_unreferenced => principal_mapping_address = "None"
    /\ principal_mapping = "None"
    /\ file_errors \in FileErrorCases
    /\ threads = << >>
    /\ threads_suspended = FALSE
    /\ tstate = [t \in Tids |-> "running"]
    /\ sp_zero \in SUBSET Tids
    /\ deaths = 0
    /\ gpc = "header"
    /\ stream = 0
    /\ dirent = DefaultDirectory
    /\ buffer = << >>
    /\ \E off \in {0, StartOffset} :
          /\ sink = [i \in 1..off |-> 255]
          /\ sink_pos = off
    /\ curr_idx = 0
    /\ dir_position = 0
    /\ destination_start_offset = 0
    /\ last_position_written_to_file = 0

(***************************************************************************)
(* LinuxPtraceDumper: suspend_thread, suspend_threads, resume_threads,     *)
(* Drop.  The build is x86, so suspend_thread reads the stack pointer.     *)
(***************************************************************************)
\* what the kernel answers to one suspend_thread: the attach succeeds and the
\* wait returns, the attach fails, the wait is interrupted, getregs fails
SuspendOutcomes == {"stopped", "attach_failed", "eintr", "getregs_failed"}

\* a suspend_thread that does not look at the stack pointer
SuspendThreadOkAnySp(t, outcome, ts, spz) ==
    /\ ts[t] = "running"
    /\ outcome = "stopped"

\* suspend_thread(t).is_ok(): the thread stays attached exactly when it is Ok
SuspendThreadOk(t, outcome, ts, spz) ==
    /\ ts[t] = "running"
    /\ outcome = "stopped"
    /\ t \notin spz

\* ptrace::detach succeeds on a thread this process has attached
DetachOk(t, ts) == ts[t] = "attached"

\* lines 147-154: resume_thread for each thread of the list, in its order,
\* whatever the earlier ones returned: where the threads are then, whether
\* every detach succeeded, the threads detach was called on and those whose
\* detach failed (the error kept is the last one's)
DetachEach(thr, ts) ==
    [tstate |-> [t \in Tids |->
                    IF t \in Range(thr) /\ DetachOk(t, ts) THEN "running" ELSE ts[t]],
     ok |-> \A t \in Range(thr) : DetachOk(t, ts),
     detach |-> thr,
     failed |-> SelectSeq(thr, LAMBDA t : ~DetachOk(t, ts))]

\* a loop that leaves at the first detach that fails
DetachUntilError(thr, ts) ==
    LET bad == {i \in DOMAIN thr : ~DetachOk(thr[i], ts)}
        upto == IF bad = {} THEN Len(thr) ELSE CHOOSE i \in bad : \A j \in bad : i <= j
        tried == SubSeq(thr, 1, upto)
    IN  [tstate |-> [t \in Tids |->
                        IF t \in Range(tried) /\ DetachOk(t, ts) THEN "running" ELSE ts[t]],
         ok |-> bad = {},
         detach |-> tried,
         failed |-> SelectSeq(tried, LAMBDA t : ~DetachOk(t, ts))]

\* a resume_threads that leaves at the first detach that fails
ResumeThreadsStopAtError(thr, susp, ts) ==
    IF susp THEN DetachUntilError(thr, ts)
    ELSE [tstate |-> ts, ok |-> TRUE, detach |-> << >>, failed |-> << >>]

\* a resume_threads that does not look at threads_suspended
ResumeThreadsUnguarded(thr, susp, ts) == DetachEach(thr, ts)

\* resume_threads, lines 144-158: the threads are detached when
\* threads_suspended, and nothing is done otherwise
ResumeThreads(thr, susp, ts) ==
    IF susp THEN DetachEach(thr, ts)
    ELSE [tstate |-> ts, ok |-> TRUE, detach |-> << >>, failed |-> << >>]

\* a Drop that does not resume: the threads stay as they are
DropDumperNoResume(thr, susp, ts) == ts

\* Drop for LinuxPtraceDumper: resume_threads, its result ignored
DropDumper(thr, susp, ts) == ResumeThreads(thr, susp, ts).tstate

\* an error leaves dump: the dumper goes out of scope next
Exit(res) ==
    /\ pc' = "drop"
    /\ result' = res

\* a dump that goes on without suspend_threads
AfterDumperNewWithoutSuspend == "check"

\* dump, lines 161-162: suspend_threads is called right after the dumper is made
AfterDumperNew == "suspend"

\* LinuxPtraceDumper::new: init lists the live threads; its error ends dump
DumperNew ==
    /\ UNCHANGED notDump
    /\ pc = "start"
    /\ \/ /\ threads' = SelectSeq(AllThreads, LAMBDA t : tstate[t] # "gone")
          /\ pc' = AfterDumperNew
          /\ UNCHANGED result
       \/ /\ Exit("err_init")
          /\ UNCHANGED threads
    /\ UNCHANGED << configVars, threads_suspended, tstate, deaths, sinkVars, genVars >>

\* a suspend_threads that is content with an empty list
SuspendThreadsAlwaysOk(kept) == TRUE

\* suspend_threads, lines 136-141: Ok exactly when a thread is left
SuspendThreadsReturn(kept) == kept # << >>

\* suspend_threads: retain the threads suspend_thread attached
SuspendThreads ==
    /\ UNCHANGED notDump
    /\ pc = "suspend"
    /\ \E o \in [Tids -> SuspendOutcomes] :
          LET kept == SelectSeq(threads, LAMBDA t : SuspendThreadOk(t, o[t], tstate, sp_zero))
          IN  /\ threads' = kept
              /\ tstate' = [t \in Tids |->
                              IF t \in Range(kept) THEN "attached" ELSE tstate[t]]
              /\ IF ~SuspendThreadsReturn(kept)
                 THEN Exit("err_no_threads") /\ UNCHANGED threads_suspended
                 ELSE /\ threads_suspended' = TRUE
                      /\ pc' = "check"
                      /\ UNCHANGED result
    /\ UNCHANGED << configVars, deaths, sinkVars, genVars >>

\* a check that lets the dump go on when the principal mapping was found
AbortsUnlessMappingFound(mapping) == mapping # "Some"

\* dump, lines 170-174: CrashingThreadReferencesPrincipalMapping is not
\* there yet and `if true` stands for its negation
AbortsForUnreferencedMapping(mapping) == TRUE

\* dump, lines 166-175: with skip_stacks_if_mapping_unreferenced the
\* principal mapping is looked up and dump leaves with an error
CheckSkipStacks ==
    /\ UNCHANGED notDump
    /\ pc = "check"
    /\ LET found == IF ~skip_stacks_if_mapping_unreferenced \/ principal_mapping_address = "None"
                    THEN principal_mapping
                    ELSE IF principal_mapping_address = "mapped" THEN "Some" ELSE "None"
       IN  /\ principal_mapping' = found
           /\ IF skip_stacks_if_mapping_unreferenced /\ AbortsForUnreferencedMapping(found)
              THEN Exit("err_skip_stacks")
              ELSE pc' = "gen" /\ UNCHANGED result
    /\ UNCHANGED << inputVars, threadVars, sinkVars, genVars >>

\* dump, line 182: the explicit resume_threads, its error propagated
ResumeThreadsCall ==
    /\ UNCHANGED notDump
    /\ pc = "resume"
    /\ LET r == ResumeThreads(threads, threads_suspended, tstate)
       IN  /\ tstate' = r.tstate
           /\ threads_suspended' = FALSE
           /\ Exit(IF r.ok THEN "ok" ELSE "err_resume")
    /\ UNCHANGED << configVars, threads, deaths, sinkVars, genVars >>

\* the dumper goes out of scope: Drop runs, then dump has returned
DumperDrop ==
    /\ UNCHANGED notDump
    /\ pc = "drop"
    /\ tstate' = DropDumper(threads, threads_suspended, tstate)
    /\ threads_suspended' = FALSE
    /\ pc' = "returned"
    /\ UNCHANGED << result, configVars, threads, deaths, sinkVars, genVars >>

\* the target: a thread dies (it is killed) while dump runs.  generate_dump
\* does not look at the threads, so the deaths are explored in the runs whose
\* raw files are all readable
ThreadDies ==
    /\ UNCHANGED notDump
    /\ pc \notin {"drop", "returned"}
    /\ deaths < MaxDeaths
    /\ file_errors = {}
    /\ \E t \in Tids :
          /\ tstate[t] # "gone"
          /\ tstate' = [tstate EXCEPT ![t] = "gone"]
    /\ deaths' = deaths + 1
    /\ UNCHANGED << pc, result, configVars, threads, threads_suspended, sinkVars, genVars >>

(***************************************************************************)
(* DirSection and generate_dump.  Every write to the sink is one step, so  *)
(* that the sink after each single write is a state of the model.          *)
(***************************************************************************)
\* the times SystemTime::now() may give the header
Timestamps == {1793600000}

\* a location_of_index that is one slot off
LocationOfIndexNextSlot(position, idx) ==
    [rva |-> position + (idx + 1) * SizeOfDirectory, data_size |-> SizeOfDirectory]

\* MemoryArrayWriter::location_of_index
LocationOfIndex(position, idx) ==
    [rva |-> position + idx * SizeOfDirectory, data_size |-> SizeOfDirectory]

\* the header reserved and left unset when the first flush is done
HeaderAndDirectoryUnset(now) ==
    Zeros(SizeOfHeader) \o Zeros(num_writers * SizeOfDirectory)

\* generate_dump, lines 197-214: the header and the zeroed directory are
\* reserved in the buffer, DirSection::new records the sink's position, and
\* the header is filled in
HeaderAndDirectory(now) ==
    LET header ==
            [signature |-> MD_HEADER_SIGNATURE, version |-> MD_HEADER_VERSION,
             stream_count |-> num_writers, stream_directory_rva |-> SizeOfHeader,
             checksum |-> 0, time_date_stamp |-> now, flags |-> 0]
        reserved == Zeros(SizeOfHeader) \o Zeros(num_writers * SizeOfDirectory)
    IN  WriteAt(reserved, 0, EncodeHeader(header))

GenHeader ==
    /\ UNCHANGED notDump
    /\ pc = "gen"
    /\ gpc = "header"
    /\ \E now \in Timestamps : buffer' = HeaderAndDirectory(now)
    /\ dir_position' = SizeOfHeader
    /\ curr_idx' = 0
    /\ destination_start_offset' = sink_pos
    /\ last_position_written_to_file' = 0
    /\ gpc' = "flush"
    /\ UNCHANGED << pc, result, configVars, threadVars, sinkVars, stream, dirent >>

\* write_file: the content of the file, at most buf_size bytes of it, or an
\* error when the file cannot be read
WriteFileContent(f) == Slice(FileContent(f), 0, Min(Len(FileContent(f)), buf_size))

\* the file whose content stream k gets, "none" when write_file fails:
\* /etc/os-release stands in for an unreadable /etc/lsb-release
FileRead(k, errs) ==
    IF FileOf(k) \notin errs THEN FileOf(k)
    ELSE IF k = 9 /\ "os_release" \notin errs THEN "os_release"
    ELSE "none"

\* the body the writer of stream k appends to the buffer
BodyOf(k, thr, errs) ==
    IF k \in FileStreams
    THEN IF FileRead(k, errs) = "none" THEN << >> ELSE WriteFileContent(FileRead(k, errs))
    ELSE StreamBody(k, thr)

\* a writer that returns a typed entry whether or not write_file succeeded
DirentOfTypedOnFailure(k, rva, body, errs) ==
    [stream_type |-> StreamType(k), data_size |-> Len(body), rva |-> rva]

\* the directory entry the writer of stream k returns for a body at rva
DirentOf(k, rva, body, errs) ==
    IF k \in FileStreams /\ FileRead(k, errs) = "none"
    THEN DefaultDirectory
    ELSE [stream_type |-> StreamType(k), data_size |-> Len(body), rva |-> rva]

\* generate_dump: the writer of the next stream appends its body to the buffer
\* and returns the directory entry; a stream writer's error leaves dump
WriteStream ==
    /\ UNCHANGED notDump
    /\ pc = "gen"
    /\ gpc = "stream"
    /\ \/ /\ LET body == BodyOf(stream, threads, file_errors)
             IN  /\ buffer' = buffer \o body
                 /\ dirent' = DirentOf(stream, Len(buffer), body, file_errors)
          /\ gpc' = IF HasDirent(stream) THEN "dirent" ELSE "flush"
          /\ UNCHANGED << pc, result >>
       \/ /\ stream \in FallibleStreams
          /\ Exit("err_stream")
          /\ UNCHANGED << buffer, dirent, gpc >>
    /\ UNCHANGED << configVars, threadVars, sinkVars, stream, curr_idx, dir_position,
                    destination_start_offset, last_position_written_to_file >>

\* a seek to the slot that takes the sink to begin at 0
SlotSeekFromZero(start_offset, idx_pos) == idx_pos.rva

\* dump_dir_entry, lines 56-58: where the sink is sought to for the slot
SlotSeek(start_offset, idx_pos) == start_offset + idx_pos.rva

\* a dump_dir_entry that leaves the cursor behind the slot it wrote
CursorLeftBehindSlot(curr_file_pos, after_slot) == after_slot

\* dump_dir_entry, lines 64-66: the sink is sought back to where it was
ResetFilePosition(curr_file_pos, after_slot) == curr_file_pos

\* DirSection::dump_dir_entry: the entry is set in the buffer at slot curr_idx
\* and the slot's bytes are written to the sink at the slot's place; the
\* sink's cursor is put back
DumpDirEntry ==
    /\ UNCHANGED notDump
    /\ pc = "gen"
    /\ gpc = "dirent"
    /\ LET idx_pos == LocationOfIndex(dir_position, curr_idx)
           curr_file_pos == sink_pos
           patched == WriteAt(buffer, idx_pos.rva, EncodeDirectory(dirent))
       IN  /\ buffer' = patched
           /\ curr_idx' = curr_idx + 1
           /\ sink' = WriteAt(sink, SlotSeek(destination_start_offset, idx_pos),
                              Slice(patched, idx_pos.rva, idx_pos.rva + idx_pos.data_size))
           /\ sink_pos' = ResetFilePosition(curr_file_pos,
                                            SlotSeek(destination_start_offset, idx_pos)
                                              + idx_pos.data_size)
    /\ gpc' = "flush"
    /\ UNCHANGED << pc, result, configVars, threadVars, stream, dirent, dir_position,
                    destination_start_offset, last_position_written_to_file >>

\* write_to_file, lines 82-85: what the buffer gained since the last call is
\* written at the sink's cursor; generate_dump goes on to the next stream
FlushToFile ==
    /\ UNCHANGED notDump
    /\ pc = "gen"
    /\ gpc = "flush"
    /\ LET start_pos == last_position_written_to_file
           tail == Slice(buffer, start_pos, Len(buffer))
       IN  /\ sink' = WriteAt(sink, sink_pos, tail)
           /\ sink_pos' = sink_pos + Len(tail)
    /\ last_position_written_to_file' = Len(buffer)
    /\ IF stream = NumStreams
       THEN pc' = "resume" /\ gpc' = "done" /\ UNCHANGED stream
       ELSE gpc' = "stream" /\ stream' = stream + 1 /\ UNCHANGED pc
    /\ UNCHANGED << result, configVars, threadVars, dirent, buffer, curr_idx,
                    dir_position, destination_start_offset >>

\* a seek or a write of the sink fails: the error leaves dump
SinkError ==
    /\ UNCHANGED notDump
    /\ pc = "gen"
    /\ gpc \in {"header", "dirent", "flush"}
    /\ Exit("err_sink")
    /\ UNCHANGED << configVars, threadVars, sinkVars, genVars >>

(***************************************************************************)
(* The Linux ProcessReader: read and its one-shot Style (a OnceLock).      *)
(* Callers are threads that share one reader; a backend's answer is the    *)
(* kernel's and is not determined by the reader.                           *)
(***************************************************************************)
\* threads that call read on the one reader
NumCallers == 2
\* calls of read in one run
MaxReads == 2

Callers == 1..NumCallers

\* size_of::<usize>() of the x86 build
WORD_SIZE == 4

\* the source addresses and lengths read is called with
ReadSrcs == {4096, 8192}
ReadLens == {1, WORD_SIZE + 1}

\* the errors of process_vm_readv, of opening and reading /proc/<pid>/mem, and
\* of PTRACE_PEEKDATA
VmemErrors == {"ENOSYS", "EFAULT"}
FileOpenErrors == {"EACCES"}
FileReadErrors == {"EIO"}
PtraceErrors == {"ESRCH", "EIO"}

StyleUnset == [kind |-> "Unset", vmem |-> "-", file |-> "-", ptrace |-> "-"]
StyleOf(kind) == [kind |-> kind, vmem |-> "-", file |-> "-", ptrace |-> "-"]
StyleUnavailable(vmem, file, ptrace) ==
    [kind |-> "Unavailable", vmem |-> vmem, file |-> file, ptrace |-> ptrace]

\* ProcessReader::new, for_virtual_mem, for_file, for_ptrace
ReaderConstructors ==
    {StyleUnset, StyleOf("VirtualMem"), StyleOf("File"), StyleOf("Ptrace")}

\* Result<usize, CopyFromProcessError>
ReadOk(len) == [ok |-> TRUE, len |-> len, source |-> "-", offset |-> 0, src |-> 0, length |-> 0]
ReadErr(source, offset, src, length) ==
    [ok |-> FALSE, len |-> 0, source |-> source, offset |-> offset, src |-> src,
     length |-> length]
NoResult == [ok |-> FALSE, len |-> 0, source |-> "none", offset |-> 0, src |-> 0, length |-> 0]

CallIdle ==
    [pc |-> "idle", src |-> 0, len |-> 0, began |-> "-", vmem |-> "-", file |-> "-",
     log |-> << >>, ret |-> NoResult]

\* the offsets at which ProcessReader::ptrace can fail: the start of a chunk
PtraceOffsets(len) == {o \in 0..(len - 1) : o % WORD_SIZE = 0}

\* a cell that stores whatever it is given
OnceLockSetOverwrite(cur, val) == [ok |-> TRUE, style |-> val]

\* OnceLock::set: the value is stored only into an empty cell
OnceLockSet(cur, val) ==
    IF cur.kind = "Unset" THEN [ok |-> TRUE, style |-> val]
    ELSE [ok |-> FALSE, style |-> cur]

\* an Unavailable reader that answers with the first error it kept
CachedReadFirstError(rs, o, off, src, len) ==
    CASE rs.kind = "VirtualMem" ->
            [log |-> << << "vmem", o >> >>,
             ret |-> IF o = "ok" THEN ReadOk(len) ELSE ReadErr(o, 0, src, len)]
      [] rs.kind = "File" ->
            [log |-> << << "file", o >> >>,
             ret |-> IF o = "ok" THEN ReadOk(len) ELSE ReadErr(o, 0, src, len)]
      [] rs.kind = "Ptrace" ->
            [log |-> << << "ptrace", o >> >>,
             ret |-> IF o = "ok" THEN ReadOk(len) ELSE ReadErr(o, off, src, len)]
      [] rs.kind = "Unavailable" ->
            [log |-> << >>, ret |-> ReadErr(rs.vmem, 0, src, len)]

\* read, lines 127-142: the call made with the style that style.get() gave.
\* o is the backend's answer: "ok" or an error; off the offset of a peek error
CachedRead(rs, o, off, src, len) ==
    CASE rs.kind = "VirtualMem" ->
            [log |-> << << "vmem", o >> >>,
             ret |-> IF o = "ok" THEN ReadOk(len) ELSE ReadErr(o, 0, src, len)]
      [] rs.kind = "File" ->
            [log |-> << << "file", o >> >>,
             ret |-> IF o = "ok" THEN ReadOk(len) ELSE ReadErr(o, 0, src, len)]
      [] rs.kind = "Ptrace" ->
            [log |-> << << "ptrace", o >> >>,
             ret |-> IF o = "ok" THEN ReadOk(len) ELSE ReadErr(o, off, src, len)]
      [] rs.kind = "Unavailable" ->
            [log |-> << >>, ret |-> ReadErr(rs.ptrace, 0, src, len)]

\* the answers the backend of a set style can give
CachedOutcomes(rs) ==
    CASE rs.kind = "VirtualMem" -> {"ok"} \cup VmemErrors
      [] rs.kind = "File" -> {"ok"} \cup FileReadErrors
      [] rs.kind = "Ptrace" -> {"ok"} \cup PtraceErrors
      [] rs.kind = "Unavailable" -> {"-"}

\* read is entered: with a style set the call is served by it and returns,
\* with none the probing starts.  exclusive: the caller serialises its calls
ReadBegin(c, exclusive) ==
    /\ UNCHANGED notReader
    /\ rcall[c].pc \in {"idle", "done"}
    /\ exclusive => \A d \in Callers : rcall[d].pc \in {"idle", "done", "panicked"}
    /\ nreads < MaxReads
    /\ nreads' = nreads + 1
    /\ \E src \in ReadSrcs, len \in ReadLens :
          IF style.kind # "Unset"
          THEN \E o \in CachedOutcomes(style), off \in PtraceOffsets(len) :
                  LET r == CachedRead(style, o, off, src, len)
                  IN  rcall' = [rcall EXCEPT ![c] =
                                  [CallIdle EXCEPT !.pc = "done", !.src = src, !.len = len,
                                                   !.began = style.kind, !.log = r.log,
                                                   !.ret = r.ret]]
          ELSE rcall' = [rcall EXCEPT ![c] =
                            [CallIdle EXCEPT !.pc = "vmem", !.src = src, !.len = len,
                                             !.began = "Unset"]]
    /\ UNCHANGED style

\* a probe that returns its result without storing the style
StoreAndReturnNoStore(c, val, entry) ==
    /\ style' = style
    /\ rcall' = [rcall EXCEPT ![c].log = Append(@, entry),
                              ![c].pc = "done",
                              ![c].ret = ReadOk(rcall[c].len)]

\* a probe succeeded: the style is stored and the call returns; a rejected
\* store is the expect(DOUBLE_INIT_MSG) panic
StoreAndReturn(c, val, entry) ==
    LET set == OnceLockSet(style, val)
    IN  /\ style' = set.style
        /\ rcall' = [rcall EXCEPT ![c].log = Append(@, entry),
                                  ![c].pc = IF set.ok THEN "done" ELSE "panicked",
                                  ![c].ret = IF set.ok THEN ReadOk(rcall[c].len) ELSE NoResult]

\* read, lines 147-153: process_vm_readv
ProbeVmem(c) ==
    /\ UNCHANGED notReader
    /\ rcall[c].pc = "vmem"
    /\ \/ StoreAndReturn(c, StyleOf("VirtualMem"), << "vmem", "ok" >>)
       \/ \E e \in VmemErrors :
             /\ rcall' = [rcall EXCEPT ![c].log = Append(@, << "vmem", e >>),
                                       ![c].vmem = e, ![c].pc = "file"]
             /\ UNCHANGED style
    /\ UNCHANGED nreads

\* read, lines 155-166: /proc/<pid>/mem is opened and read
ProbeFile(c) ==
    /\ UNCHANGED notReader
    /\ rcall[c].pc = "file"
    /\ \/ StoreAndReturn(c, StyleOf("File"), << "file", "ok" >>)
       \/ \E e \in FileOpenErrors \cup FileReadErrors :
             /\ rcall' = [rcall EXCEPT ![c].log = Append(@, << "file", e >>),
                                       ![c].file = e, ![c].pc = "ptrace"]
             /\ UNCHANGED style
    /\ UNCHANGED nreads

\* read, lines 168-186: PTRACE_PEEKDATA; when it fails too the three errors
\* are stored and the peek's error is returned with offset 0
ProbePtrace(c) ==
    /\ UNCHANGED notReader
    /\ rcall[c].pc = "ptrace"
    /\ \/ StoreAndReturn(c, StyleOf("Ptrace"), << "ptrace", "ok" >>)
       \/ \E e \in PtraceErrors :
             LET set == OnceLockSet(style, StyleUnavailable(rcall[c].vmem, rcall[c].file, e))
             IN  /\ style' = set.style
                 /\ rcall' = [rcall EXCEPT
                        ![c].log = Append(@, << "ptrace", e >>),
                        ![c].pc = IF set.ok THEN "done" ELSE "panicked",
                        ![c].ret = IF set.ok
                                   THEN ReadErr(e, 0, rcall[c].src, rcall[c].len)
                                   ELSE NoResult]
    /\ UNCHANGED nreads

ReaderInit ==
    /\ style \in ReaderConstructors
    /\ rcall = [c \in Callers |-> CallIdle]
    /\ nreads = 0

\* the reader is not in use while dump is modelled
ReaderIdle ==
    /\ style = StyleUnset
    /\ rcall = [c \in Callers |-> CallIdle]
    /\ nreads = 0

\* dump is not in use while the reader is modelled
DumpIdle ==
    /\ pc = "returned"
    /\ result = "none"
    /\ skip_stacks_if_mapping_unreferenced = FALSE
    /\ principal_mapping_address = "None"
    /\ principal_mapping = "None"
    /\ file_errors = {}
    /\ threads = << >>
    /\ threads_suspended = FALSE
    /\ tstate = [t \in Tids |-> "running"]
    /\ sp_zero = {}
    /\ deaths = 0
    /\ gpc = "done"
    /\ stream = 0
    /\ dirent = DefaultDirectory
    /\ buffer = << >>
    /\ sink = << >>
    /\ sink_pos = 0
    /\ curr_idx = 0
    /\ dir_position = 0
    /\ destination_start_offset = 0
    /\ last_position_written_to_file = 0

(***************************************************************************)
(* The target's memory, and the three backends of read as they move bytes: *)
(* linux/process_reader.rs vmem, file and ptrace.                          *)
(***************************************************************************)
MemSize == 8

Addrs == 0..(MemSize - 1)

\* the memories: distinct non-zero bytes, with nul bytes at up to two places
NulSets == {{}} \cup {{z, y} : z \in Addrs, y \in Addrs}
MemoryOf(nuls) == [a \in Addrs |-> IF a \in nuls THEN 0 ELSE 65 + a]

\* the readable addresses are the pages below some limit
MemInit ==
    /\ \E nuls \in NulSets : mem = MemoryOf(nuls)
    /\ \E hi \in 0..MemSize : readable = 0..(hi - 1)

\* the bytes of the target at [src, src+len)
MemBytes(src, len) == [i \in 1..len |-> mem[src + i - 1]]

\* how many of the len bytes from src on can be read before the first that cannot
RECURSIVE ReadableRun(_, _)
ReadableRun(src, len) ==
    IF len = 0 \/ src \notin readable THEN 0 ELSE 1 + ReadableRun(src + 1, len - 1)

SetMin(S) == CHOOSE x \in S : \A y \in S : x <= y

BytesRead(bytes) == [ok |-> TRUE, bytes |-> bytes, source |-> "-", offset |-> 0]
ReadFailed(source, offset) == [ok |-> FALSE, bytes |-> << >>, source |-> source, offset |-> offset]

\* vmem: process_vm_readv fails when nothing can be transferred and otherwise
\* returns the count it transferred, which may be short of the request
Vmem(src, len) ==
    LET run == ReadableRun(src, len)
    IN  IF run = 0 THEN {ReadFailed("EFAULT", 0)}
        ELSE {BytesRead(MemBytes(src, k)) : k \in 1..run}

\* file: read_exact_at fills the whole of dst or fails
File(src, len) ==
    IF ReadableRun(src, len) = len THEN {BytesRead(MemBytes(src, len))}
    ELSE {ReadFailed("EIO", 0)}

\* PTRACE_PEEKDATA transfers one whole word or fails
PeekOk(a) == \A i \in 0..(WORD_SIZE - 1) : a + i \in readable

\* ptrace: one peek per complete word of dst, and one more whole-word peek at
\* src + offset for a remainder shorter than a word
Ptrace(src, len) ==
    LET failed == {o \in PtraceOffsets(len) : ~PeekOk(src + o)}
    IN  IF failed = {} THEN {BytesRead(MemBytes(src, len))}
        ELSE {ReadFailed("EIO", SetMin(failed))}

PresetStyles == {"VirtualMem", "File", "Ptrace"}

\* read with the style set: the outcomes of one call for len bytes at src
ReadWith(rs, src, len) ==
    CASE rs = "VirtualMem" -> {[r EXCEPT !.offset = 0] : r \in Vmem(src, len)}
      [] rs = "File" -> {[r EXCEPT !.offset = 0] : r \in File(src, len)}
      [] rs = "Ptrace" -> Ptrace(src, len)

(***************************************************************************)
(* process_reader.rs: read_all.                                            *)
(***************************************************************************)
ReadAllBegin ==
    /\ UNCHANGED notReadAll
    /\ UNCHANGED memVars
    /\ ra.pc = "idle"
    /\ \E rs \in PresetStyles, src \in Addrs, n \in 0..MemSize :
          ra' = [pc |-> "loop", style |-> rs, src |-> src, n |-> n, offset |-> 0,
                 dst |-> Zeros(n), ret |-> NoResult]

\* one iteration of the loop: read(src + offset, &mut dst[offset..])?
ReadAllIter ==
    /\ UNCHANGED notReadAll
    /\ UNCHANGED memVars
    /\ ra.pc = "loop"
    /\ ra.offset < ra.n
    /\ \E r \in ReadWith(ra.style, ra.src + ra.offset, ra.n - ra.offset) :
          ra' = IF r.ok
                THEN [ra EXCEPT !.dst = WriteAt(@, ra.offset, r.bytes),
                                !.offset = @ + Len(r.bytes)]
                ELSE [ra EXCEPT !.pc = "done",
                                !.ret = ReadErr(r.source, r.offset, ra.src + ra.offset,
                                                ra.n - ra.offset)]

\* the loop ends: Ok(())
ReadAllReturn ==
    /\ UNCHANGED notReadAll
    /\ UNCHANGED memVars
    /\ ra.pc = "loop"
    /\ ra.offset >= ra.n
    /\ ra' = [ra EXCEPT !.pc = "done", !.ret = ReadOk(ra.n)]

(***************************************************************************)
(* process_reader.rs: copy_nul_terminated_string.                          *)
(***************************************************************************)
\* the position of the first nul of bytes, 0 when there is none
NulPosition(bytes) ==
    LET at == {i \in DOMAIN bytes : bytes[i] = 0}
    IN  IF at = {} THEN 0 ELSE SetMin(at)

\* the word path keeps the bytes up to the nul but leaves the nul out
WordTakeNoNul(read_bytes) ==
    IF NulPosition(read_bytes) = 0 THEN read_bytes
    ELSE SubSeq(read_bytes, 1, NulPosition(read_bytes) - 1)

\* lines 85-89: the bytes read, cut after the first nul (+1 to include it)
WordTake(read_bytes) ==
    IF NulPosition(read_bytes) = 0 THEN read_bytes
    ELSE SubSeq(read_bytes, 1, NulPosition(read_bytes))

\* lines 59-69: the byte-by-byte loop, from the string read so far
RECURSIVE BytePath(_, _, _)
BytePath(rs, address, string) ==
    LET r == CHOOSE x \in ReadWith(rs, address + Len(string), 1) : TRUE
    IN  IF ~r.ok
        THEN [string |-> string,
              ret |-> ReadErr(r.source, r.offset, address + Len(string), 1)]
        ELSE IF r.bytes[1] = 0
        THEN [string |-> Append(string, 0), ret |-> ReadOk(Len(string) + 1)]
        ELSE BytePath(rs, address, Append(string, r.bytes[1]))

StringBegin ==
    /\ UNCHANGED notString
    /\ UNCHANGED memVars
    /\ sc.pc = "idle"
    /\ \E rs \in PresetStyles, address \in Addrs :
          sc' = [pc |-> "word", style |-> rs, address |-> address, string |-> << >>,
                 path |-> "word", ret |-> NoResult]

\* one iteration of the loop of copy_nul_terminated_string_word_by_word; an
\* error of read ends the word path and the caller goes on byte by byte
WordStep ==
    /\ UNCHANGED notString
    /\ UNCHANGED memVars
    /\ sc.pc = "word"
    /\ \E r \in ReadWith(sc.style, sc.address + Len(sc.string), WORD_SIZE) :
          sc' = IF ~r.ok
                THEN [sc EXCEPT !.pc = "byte", !.string = << >>, !.path = "byte"]
                ELSE LET string == sc.string \o WordTake(r.bytes)
                     IN  IF NulPosition(r.bytes) # 0
                         THEN [sc EXCEPT !.pc = "done", !.string = string,
                                         !.ret = ReadOk(Len(string))]
                         ELSE [sc EXCEPT !.string = string]

\* the byte-by-byte loop of copy_nul_terminated_string
CopyByteByByte ==
    /\ UNCHANGED notString
    /\ UNCHANGED memVars
    /\ sc.pc = "byte"
    /\ LET b == BytePath(sc.style, sc.address, << >>)
       IN  sc' = [sc EXCEPT !.pc = "done", !.string = b.string, !.ret = b.ret]

(***************************************************************************)
(* linux_ptrace_dumper.rs: sanitize_stack_copy, on the x86 build.  A usize *)
(* is its 32-bit pattern held as a signed integer: a negative integer is   *)
(* an address of the upper half of the address space.                      *)
(***************************************************************************)
StackWords == 2

test_bits == 11
array_size == 2 ^ (test_bits - 3)
shift == 32 - 11
small_int_magnitude == 4096

\* the bits of could_hit_mapping: array_size bytes
BitfieldSize == array_size * 8

\* 0x0defacedusize.to_ne_bytes()
defaced == U32LE(233811181)

\* usize::from_ne_bytes and isize::from_ne_bytes of the word at 0-based offset off
FromNeBytes(s, off) ==
    s[off + 1] + 256 * s[off + 2] + 65536 * s[off + 3]
      + 16777216 * (IF s[off + 4] >= 128 THEN s[off + 4] - 256 ELSE s[off + 4])

\* a < b and a <= b of two usize
ULess(a, b) == IF (a >= 0) = (b >= 0) THEN a < b ELSE a >= 0
ULessEq(a, b) == a = b \/ ULess(a, b)

\* addr >> shift of a usize
ShiftRight(a) == IF a >= 0 THEN a \div (2 ^ shift) ELSE (a \div (2 ^ shift)) + 2 ^ (32 - shift)

MappingInfo(start_address, size, executable, sys_start, sys_end) ==
    [start_address |-> start_address, size |-> size, executable |-> executable,
     system_mapping_info |-> [start_address |-> sys_start, end_address |-> sys_end]]

\* MappingInfo::contains_address
contains_address(map, address) ==
    /\ ULessEq(map.system_mapping_info.start_address, address)
    /\ ULess(address, map.system_mapping_info.end_address)

\* find_mapping_no_bias: the index of the first mapping whose kernel-reported
\* range holds the address, 0 for None
find_mapping_no_bias(maps, address) ==
    LET found == {i \in DOMAIN maps :
                    /\ ULessEq(maps[i].system_mapping_info.start_address, address)
                    /\ ULess(address, maps[i].system_mapping_info.end_address)}
    IN  IF found = {} THEN 0 ELSE SetMin(found)

\* lines 320-338: the bits set for the executable mappings, from start_address
\* and size
CouldHitMapping(maps) ==
    UNION {{bit % BitfieldSize :
               bit \in ShiftRight(maps[i].start_address)
                         ..ShiftRight(maps[i].start_address + maps[i].size)} :
           i \in {j \in DOMAIN maps : maps[j].executable}}

\* a loop that keeps every word some mapping holds, executable or not
SanitizeWordAnyMapping(maps, stack_mapping, last_hit, could_hit, addr) ==
    IF ULessEq(addr, small_int_magnitude) /\ addr >= -small_int_magnitude
    THEN [keep |-> TRUE, last_hit |-> last_hit]
    ELSE IF find_mapping_no_bias(maps, addr) # 0
    THEN [keep |-> TRUE, last_hit |-> find_mapping_no_bias(maps, addr)]
    ELSE [keep |-> FALSE, last_hit |-> last_hit]

\* lines 350-378: what the loop does with one word: whether it is kept, and
\* the last hit mapping after it
SanitizeWord(maps, stack_mapping, last_hit, could_hit, addr) ==
    IF ULessEq(addr, small_int_magnitude) /\ addr >= -small_int_magnitude
    THEN [keep |-> TRUE, last_hit |-> last_hit]
    ELSE IF stack_mapping # 0 /\ contains_address(maps[stack_mapping], addr)
    THEN [keep |-> TRUE, last_hit |-> last_hit]
    ELSE IF last_hit # 0 /\ contains_address(maps[last_hit], addr)
    THEN [keep |-> TRUE, last_hit |-> last_hit]
    ELSE IF /\ (ShiftRight(addr) % BitfieldSize) \in could_hit
            /\ find_mapping_no_bias(maps, addr) # 0
            /\ maps[find_mapping_no_bias(maps, addr)].executable
    THEN [keep |-> TRUE, last_hit |-> find_mapping_no_bias(maps, addr)]
    ELSE [keep |-> FALSE, last_hit |-> last_hit]

\* lines 347-384: the complete words from 0-based position pos on, then the
\* partial word at the top
RECURSIVE SanitizeChunks(_, _, _, _, _, _)
SanitizeChunks(maps, stack_mapping, last_hit, could_hit, stack_copy, pos) ==
    IF pos + WORD_SIZE > Len(stack_copy)
    THEN [i \in 1..Len(stack_copy) |-> IF i > pos THEN 0 ELSE stack_copy[i]]
    ELSE LET w == SanitizeWord(maps, stack_mapping, last_hit, could_hit,
                               FromNeBytes(stack_copy, pos))
         IN  SanitizeChunks(maps, stack_mapping, w.last_hit, could_hit,
                            IF w.keep THEN stack_copy ELSE WriteAt(stack_copy, pos, defaced),
                            pos + WORD_SIZE)

\* lines 340-341: sp_offset rounded up to a word
AlignedOffset(sp_offset) == ((sp_offset + WORD_SIZE - 1) \div WORD_SIZE) * WORD_SIZE

\* sanitize_stack_copy; slicing stack_copy[0..offset] past its end panics
SanitizeStackCopy(maps, stack_copy, stack_pointer, sp_offset) ==
    LET offset == AlignedOffset(sp_offset)
    IN  IF offset > Len(stack_copy)
        THEN [panicked |-> TRUE, stack_copy |-> stack_copy]
        ELSE [panicked |-> FALSE,
              stack_copy |->
                  SanitizeChunks(maps, find_mapping_no_bias(maps, stack_pointer), 0,
                                 CouldHitMapping(maps),
                                 WriteAt(stack_copy, 0, Zeros(offset)), offset)]

\* the mappings of the runs: the stack, a page of code or of data at 0x1000,
\* and a library whose start_address is biased to its executable segment
\* 0x600000 while the kernel reports it from 0x200000
StackMapping == MappingInfo(2130706432, 8192, FALSE, 2130706432, 2130714624)
CodePage == MappingInfo(4096, 4096, TRUE, 4096, 8192)
DataPage == MappingInfo(4096, 4096, FALSE, 4096, 8192)
BiasedLibrary == MappingInfo(6291456, 4096, TRUE, 2097152, 6295552)
Library == MappingInfo(2097152, 4198400, TRUE, 2097152, 6295552)

MappingCases ==
    { << >>, << StackMapping >>, << StackMapping, CodePage >>, << StackMapping, DataPage >>,
      << StackMapping, Library >>, << BiasedLibrary >>, << DataPage, BiasedLibrary >> }

\* the words of the stacks: small integers of both signs and their
\* neighbours, addresses inside and outside the mappings
SanWords ==
    {0, 4096, 4097, -1, -4096, -4097, 6144, 2099200, 6293504, 2130706688, 305419896}

StackPointers == {2130706688}
TailBytes == {<< >>, << 170, 187 >>}

RECURSIVE WordsToBytes(_)
WordsToBytes(words) ==
    IF words = << >> THEN << >> ELSE U32LE(Head(words)) \o WordsToBytes(Tail(words))

SanitizerInit ==
    \E maps \in MappingCases, words \in [1..StackWords -> SanWords], tail \in TailBytes,
       sp \in StackPointers :
        \E sp_offset \in {0, 1, WORD_SIZE, StackWords * WORD_SIZE + Len(tail)} :
            san = [pc |-> "ready", mappings |-> maps, stack_pointer |-> sp,
                   sp_offset |-> sp_offset, input |-> WordsToBytes(words) \o tail,
                   stack_copy |-> WordsToBytes(words) \o tail]

SanitizeStackCopyCall ==
    /\ UNCHANGED notSanitizer
    /\ san.pc = "ready"
    /\ LET r == SanitizeStackCopy(san.mappings, san.stack_copy, san.stack_pointer,
                                  san.sp_offset)
       IN  san' = [san EXCEPT !.pc = IF r.panicked THEN "panicked" ELSE "done",
                              !.stack_copy = r.stack_copy]

(***************************************************************************)
(* linux_ptrace_dumper.rs: enumerate_mappings and find_mapping.  The       *)
(* addresses are small: what matters is how the ranges lie to each other.  *)
(***************************************************************************)
MaxAddr == 5
MaxMappings == 3

\* the mappings a line of /proc/<pid>/maps can give
ParsedRanges ==
    {MappingInfo(a, sz, TRUE, a, a + sz) : a \in 0..(MaxAddr - 1), sz \in 1..MaxAddr}

\* the lists of at most n ranges that begin at lo or above, ascending and not
\* overlapping
RECURSIVE ParsedListsFrom(_, _)
ParsedListsFrom(lo, n) ==
    {<< >>} \cup
    (IF n = 0 THEN {}
     ELSE UNION {{<< r >> \o rest :
                     rest \in ParsedListsFrom(r.start_address + r.size, n - 1)} :
                 r \in {q \in ParsedRanges :
                           q.start_address >= lo /\ q.start_address + q.size <= MaxAddr}})

\* the lists the lines of /proc/<pid>/maps give: ascending, not overlapping
ParsedLists == ParsedListsFrom(0, MaxMappings)

\* auxv.get(&AT_ENTRY): absent, or the value it holds
AuxvEntries ==
    {[present |-> FALSE, value |-> 0]} \cup {[present |-> TRUE, value |-> v] : v \in 0..MaxAddr}

\* *self.auxv.get(&libc::AT_ENTRY).unwrap_or(&0)
EntryPointLoc(auxv_entry) == IF auxv_entry.present THEN auxv_entry.value ELSE 0

\* lines 226-228: the module's range covers the address
ModuleCovers(module, loc) ==
    loc >= module.start_address /\ loc < module.start_address + module.size

\* the covering module is taken out and put in front of the others
MoveEntryPointFirst(parsed, entry_point_loc) ==
    LET covering == {i \in DOMAIN parsed : ModuleCovers(parsed[i], entry_point_loc)}
    IN  IF entry_point_loc = 0 \/ covering = {} THEN parsed
        ELSE << parsed[SetMin(covering)] >>
               \o SelectSeq(parsed, LAMBDA m : m # parsed[SetMin(covering)])

\* lines 219-237: mappings.swap(0, idx) for the first module that covers the
\* entry point
SwapEntryPoint(parsed, entry_point_loc) ==
    LET covering == {i \in DOMAIN parsed : ModuleCovers(parsed[i], entry_point_loc)}
    IN  IF entry_point_loc = 0 \/ covering = {} THEN parsed
        ELSE [i \in DOMAIN parsed |->
                IF i = 1 THEN parsed[SetMin(covering)]
                ELSE IF i = SetMin(covering) THEN parsed[1]
                ELSE parsed[i]]

\* a search that also takes the address one past the end of a mapping
find_mapping_inclusive(maps, address) ==
    LET found == {i \in DOMAIN maps :
                    /\ address >= maps[i].start_address
                    /\ address - maps[i].start_address <= maps[i].size}
    IN  IF found = {} THEN 0 ELSE SetMin(found)

\* find_mapping: the index of the first mapping whose range holds the
\* address, 0 for None
find_mapping(maps, address) ==
    LET found == {i \in DOMAIN maps :
                    /\ address >= maps[i].start_address
                    /\ address - maps[i].start_address < maps[i].size}
    IN  IF found = {} THEN 0 ELSE SetMin(found)

EnumeratorInit ==
    \E parsed \in ParsedLists, auxv_entry \in AuxvEntries :
        en = [pc |-> "init", parsed |-> parsed, auxv_entry |-> auxv_entry,
              mappings |-> << >>, address |-> -1, found |-> 0]

EnumerateMappings ==
    /\ UNCHANGED notEnumerator
    /\ en.pc = "init"
    /\ en' = [en EXCEPT !.pc = "ready",
                        !.mappings = SwapEntryPoint(en.parsed, EntryPointLoc(en.auxv_entry))]

FindMapping ==
    /\ UNCHANGED notEnumerator
    /\ en.pc = "ready"
    /\ \E address \in 0..MaxAddr :
          en' = [en EXCEPT !.address = address,
                           !.found = find_mapping(en.mappings, address)]

(***************************************************************************)
(* The ELF file identifier (elf_file_identifier_from_mapped_file).  The    *)
(* ELF parser is goblin's: an image is given by what the parser returns    *)
(* for it, and a section by the bytes at its sh_offset.                    *)
(***************************************************************************)
\* section headers of one image
MaxSections == 2

\* std::mem::size_of::<MDGUID>()
MDGUIDSize == 16
\* the first page of the text section that is hashed
PageSize == 4096

\* a ^ b of two u8
Xor(a, b) ==
    LET bit(x, i) == (x \div (2 ^ i)) % 2
    IN  (IF bit(a, 0) # bit(b, 0) THEN 1 ELSE 0) + (IF bit(a, 1) # bit(b, 1) THEN 2 ELSE 0)
          + (IF bit(a, 2) # bit(b, 2) THEN 4 ELSE 0) + (IF bit(a, 3) # bit(b, 3) THEN 8 ELSE 0)
          + (IF bit(a, 4) # bit(b, 4) THEN 16 ELSE 0) + (IF bit(a, 5) # bit(b, 5) THEN 32 ELSE 0)
          + (IF bit(a, 6) # bit(b, 6) THEN 64 ELSE 0) + (IF bit(a, 7) # bit(b, 7) THEN 128 ELSE 0)

\* the byte at 0-based position i of a section: a section is filled with one
\* byte, throughout ("uniform") or in its first MDGUIDSize bytes only
\* ("first_block", zero after them)
SectionByte(section, i) ==
    IF section.pattern = "uniform" \/ i < MDGUIDSize THEN section.fill ELSE 0

\* the sections of the images
SectionCases ==
    {[sh_type |-> "SHT_PROGBITS", alloc |-> TRUE, execinstr |-> TRUE, sh_size |-> size,
      fill |-> f, pattern |-> p] :
        size \in {PageSize}, f \in {170, 85}, p \in {"uniform", "first_block"}}
    \cup {[sh_type |-> "SHT_PROGBITS", alloc |-> TRUE, execinstr |-> TRUE,
           sh_size |-> MDGUIDSize, fill |-> 170, pattern |-> "uniform"],
          [sh_type |-> "SHT_PROGBITS", alloc |-> TRUE, execinstr |-> FALSE,
           sh_size |-> PageSize, fill |-> 1, pattern |-> "uniform"],
          [sh_type |-> "SHT_PROGBITS", alloc |-> FALSE, execinstr |-> TRUE,
           sh_size |-> PageSize, fill |-> 2, pattern |-> "uniform"],
          [sh_type |-> "SHT_NOBITS", alloc |-> TRUE, execinstr |-> TRUE,
           sh_size |-> PageSize, fill |-> 3, pattern |-> "uniform"]}

\* what Elf::parse and parse_build_id give for the images
BuildIds == {<< >>, << 1, 2, 3, 4 >>}
ElfImages ==
    {[parsed |-> ok, build_id |-> id, section_headers |-> sh] :
        ok \in BOOLEAN,
        id \in {[present |-> FALSE, desc |-> << >>]}
                 \cup {[present |-> TRUE, desc |-> d] : d \in BuildIds},
        sh \in UNION {[1..n -> SectionCases] : n \in 0..MaxSections}}

\* a hash that is the first block of the section
XorFoldFirstBlock(section, idx, first, count) == SectionByte(section, idx)

\* lines 457-465: what the loop XORs into result[idx] for `count` consecutive
\* blocks of MDGUIDSize bytes from block `first` on (the blocks are taken by
\* halves: ^ is associative)
RECURSIVE XorFold(_, _, _, _)
XorFold(section, idx, first, count) ==
    IF count = 1 THEN SectionByte(section, first * MDGUIDSize + idx)
    ELSE Xor(XorFold(section, idx, first, count \div 2),
             XorFold(section, idx, first + count \div 2, count - count \div 2))

\* lines 443-448: the first allocated executable progbits section, 0 for none
TextSection(section_headers) ==
    LET text == {i \in DOMAIN section_headers :
                    /\ section_headers[i].sh_type = "SHT_PROGBITS"
                    /\ section_headers[i].alloc
                    /\ section_headers[i].execinstr}
    IN  IF text = {} THEN 0 ELSE SetMin(text)

\* elf_file_identifier_from_mapped_file; indexing text_section past sh_size
\* panics
elf_file_identifier_from_mapped_file(image) ==
    IF ~image.parsed THEN [kind |-> "Err", bytes |-> << >>]
    ELSE IF image.build_id.present THEN [kind |-> "Ok", bytes |-> image.build_id.desc]
    ELSE IF TextSection(image.section_headers) = 0 THEN [kind |-> "Err", bytes |-> << >>]
    ELSE LET text_section == image.section_headers[TextSection(image.section_headers)]
         IN  IF text_section.sh_size < PageSize
             THEN [kind |-> "panic", bytes |-> << >>]
             ELSE [kind |-> "Ok",
                   bytes |-> [idx \in 1..MDGUIDSize |->
                                XorFold(text_section, idx - 1, 0, PageSize \div MDGUIDSize)]]

ElfInit ==
    \E image \in ElfImages :
        elf = [pc |-> "ready", image |-> image, result |-> [kind |-> "none", bytes |-> << >>]]

ElfFileIdentifier ==
    /\ UNCHANGED notElf
    /\ elf.pc = "ready"
    /\ elf' = [elf EXCEPT !.pc = "done",
                          !.result = elf_file_identifier_from_mapped_file(elf.image)]

(***************************************************************************)
(* ModuleMemory (module_reader.rs): read, absolute_to_relative and         *)
(* relative_to_absolute.  The integer types are scaled down: a u64 has     *)
(* U64Bits bits and a usize of the 32-bit build UsizeBits bits, so that    *)
(* `as usize` truncates as it does there.                                  *)
(***************************************************************************)
\* bits of a u64 and of a usize in the model
U64Bits == 4
UsizeBits == 2
\* the longest slice a ModuleMemory::Slice holds
MaxSlice == 3

U64 == 0..(2 ^ U64Bits - 1)
\* x as usize
AsUsize(x) == x % (2 ^ UsizeBits)

\* u64::checked_add and u64::checked_sub
checked_add(a, b) ==
    IF a + b >= 2 ^ U64Bits THEN [some |-> FALSE, value |-> 0] ELSE [some |-> TRUE, value |-> a + b]
\* a subtraction that wraps
wrapping_sub(a, b) == [some |-> TRUE, value |-> (a - b) % (2 ^ U64Bits)]
checked_sub(a, b) ==
    IF a < b THEN [some |-> FALSE, value |-> 0] ELSE [some |-> TRUE, value |-> a - b]

\* the memories: slices of up to MaxSlice bytes, each byte telling its
\* place, and process memories at every start address
ModuleMemories ==
    {[kind |-> "Slice", bytes |-> [i \in 1..n |-> 100 + i], start_address |-> 0] :
        n \in 0..MaxSlice}
    \cup {[kind |-> "Process", bytes |-> << >>, start_address |-> b] : b \in U64}

MMOk(bytes) == [kind |-> "Ok", bytes |-> bytes]
MMErr(error) == [kind |-> error, bytes |-> << >>]

\* read, lines 90-98: the Slice arm
SliceRead(s, offset, length) ==
    LET end == checked_add(offset, length)
    IN  IF ~end.some THEN MMErr("Overflow")
        ELSE IF AsUsize(offset) <= AsUsize(end.value) /\ AsUsize(end.value) <= Len(s)
        THEN MMOk(Slice(s, AsUsize(offset), AsUsize(end.value)))
        ELSE MMErr("OutOfBounds")

\* read, lines 80-85: the checks of the Process arm; when they pass, the
\* address and the length read_to_vec is called with
ProcessReadCall(start_address, offset, length) ==
    IF AsUsize(length) = 0 THEN [error |-> "ZeroLengthProcessRead", src |-> 0, len |-> 0]
    ELSE IF ~checked_add(start_address, offset).some
    THEN [error |-> "Overflow", src |-> 0, len |-> 0]
    ELSE [error |-> "none", src |-> AsUsize(checked_add(start_address, offset).value),
          len |-> AsUsize(length)]

\* what the process holds at an address
ProcessBytes(src, len) == [i \in 1..len |-> 200 + AsUsize(src + i - 1)]

\* absolute_to_relative and relative_to_absolute
absolute_to_relative(memory, addr) ==
    IF memory.kind # "Process" THEN [some |-> TRUE, value |-> addr]
    ELSE checked_sub(addr, memory.start_address)
relative_to_absolute(memory, addr) ==
    IF memory.kind # "Process" THEN [some |-> TRUE, value |-> addr]
    ELSE checked_add(memory.start_address, addr)

ModuleMemoryInit ==
    \E memory \in ModuleMemories :
        mm = [pc |-> "ready", memory |-> memory, op |-> "none", offset |-> 0, length |-> 0,
              result |-> MMErr("none"), reads |-> << >>,
              addr |-> 0, converted |-> [some |-> FALSE, value |-> 0],
              back |-> [some |-> FALSE, value |-> 0]]

\* one call of ModuleMemory::read; the process reader's answer is its own
ModuleMemoryRead ==
    /\ UNCHANGED notModuleMemory
    /\ mm.pc = "ready"
    /\ \E offset \in U64, length \in U64 :
          IF mm.memory.kind = "Slice"
          THEN mm' = [mm EXCEPT !.pc = "done", !.op = "read", !.offset = offset,
                                !.length = length,
                                !.result = SliceRead(mm.memory.bytes, offset, length)]
          ELSE LET call == ProcessReadCall(mm.memory.start_address, offset, length)
               IN  IF call.error # "none"
                   THEN mm' = [mm EXCEPT !.pc = "done", !.op = "read", !.offset = offset,
                                         !.length = length, !.result = MMErr(call.error)]
                   ELSE \E r \in {MMOk(ProcessBytes(call.src, call.len)), MMErr("CopyError")} :
                          mm' = [mm EXCEPT !.pc = "done", !.op = "read", !.offset = offset,
                                           !.length = length, !.result = r,
                                           !.reads = Append(@, [src |-> call.src,
                                                                len |-> call.len])]

\* one call of absolute_to_relative, and relative_to_absolute of its result
AbsoluteToRelative ==
    /\ UNCHANGED notModuleMemory
    /\ mm.pc = "ready"
    /\ \E addr \in U64 :
          LET r == absolute_to_relative(mm.memory, addr)
          IN  mm' = [mm EXCEPT !.pc = "done", !.op = "absolute_to_relative", !.addr = addr,
                               !.converted = r,
                               !.back = IF r.some THEN relative_to_absolute(mm.memory, r.value)
                                        ELSE [some |-> FALSE, value |-> 0]]

\* one call of relative_to_absolute, and absolute_to_relative of its result
RelativeToAbsolute ==
    /\ UNCHANGED notModuleMemory
    /\ mm.pc = "ready"
    /\ \E addr \in U64 :
          LET a == relative_to_absolute(mm.memory, addr)
          IN  mm' = [mm EXCEPT !.pc = "done", !.op = "relative_to_absolute", !.addr = addr,
                               !.converted = a,
                               !.back = IF a.some THEN absolute_to_relative(mm.memory, a.value)
                                        ELSE [some |-> FALSE, value |-> 0]]

(***************************************************************************)
(* The Mach-O ModuleReader (mac/module_reader.rs): find_section and        *)
(* find_section_in_segment.  A load command is given by what reading and   *)
(* parsing it gives: "ok", a module-memory read failure ("read") or a      *)
(* scroll parse failure ("parse").                                         *)
(***************************************************************************)
\* load commands of one image
MaxCommands == 2
\* the turns of a loop that may not end are counted modulo MaxPolls
MaxPolls == 4

\* a load command: cmdsize is counted in commands, 1 for a command that
\* ends where the next one begins
Command(header, cmd, segment, segname, sections, found) ==
    [header |-> header, cmd |-> cmd, segment |-> segment, segname |-> segname,
     sections |-> sections, found |-> found, cmdsize |-> 1]

\* the load commands of the images: one that cannot be read or parsed, one
\* that is no segment, and segments that fail at each read or hold the
\* section or not
CommandCases ==
    {Command(h, "other", "ok", "__TEXT", "ok", FALSE) : h \in {"ok", "read", "parse"}}
    \cup {Command("ok", "LC_SEGMENT_64", sg, "__TEXT", "ok", FALSE) :
             sg \in {"ok", "read", "parse"}}
    \cup {Command("ok", "LC_SEGMENT_64", "ok", "__DATA", sc_, FALSE) :
             sc_ \in {"ok", "read", "parse"}}
    \cup {Command("ok", "LC_SEGMENT_64", "ok", "__DATA", "ok", TRUE)}

\* load commands that can be read and whose cmdsize is 0
ZeroSizeCases ==
    {[c EXCEPT !.cmdsize = 0] :
        c \in {Command("ok", "other", "ok", "__TEXT", "ok", FALSE),
               Command("ok", "LC_SEGMENT_64", "ok", "__DATA", "ok", FALSE),
               Command("ok", "LC_SEGMENT_64", "ok", "__DATA", "ok", TRUE)}}

\* the header of the image: whether find_section looks at the commands
MachHeaders == {"MH_MAGIC_64", "MH_MAGIC", "other_filetype"}

MachImages ==
    {[header |-> h, commands |-> c] :
        h \in MachHeaders, c \in UNION {[1..n -> CommandCases] : n \in 0..MaxCommands}}

FoundSection == [kind |-> "Ok", some |-> TRUE]
NoSection == [kind |-> "Ok", some |-> FALSE]
\* the ModuleReaderError a failure becomes through `?`
MachError(failure) ==
    [kind |-> IF failure = "read" THEN "ReadModuleMemory" ELSE "ScrollParsing", some |-> FALSE]

\* find_section_in_segment
find_section_in_segment(command) ==
    IF command.segment # "ok" THEN MachError(command.segment)
    ELSE IF command.segname = "__DATA"
    THEN IF command.sections # "ok" THEN MachError(command.sections)
         ELSE IF command.found THEN FoundSection ELSE NoSection
    ELSE NoSection

\* find_section, lines 127-132: the result of find_section_in_segment is
\* returned when it is Ok(Some(_)); the loop goes on after any other
ReturnsFromLoop(in_segment) == in_segment = FoundSection

\* images whose load commands may have a cmdsize of 0
MachImagesAnySize ==
    {[header |-> h, commands |-> c] :
        h \in MachHeaders,
        c \in UNION {[1..n -> CommandCases \cup ZeroSizeCases] : n \in 0..MaxCommands}}

\* find_section is called; the turns of its loop are counted modulo MaxPolls
MachOCall(image) ==
    [pc |-> "start", image |-> image, index |-> 1, result |-> [kind |-> "none", some |-> FALSE],
     failures |-> << >>, turns |-> 0]

MachOInit == \E image \in MachImages : mo = MachOCall(image)

MachOAnySizeInit == \E image \in MachImagesAnySize : mo = MachOCall(image)

\* find_section, lines 114-119 and 139: an image that is no 64-bit
\* executable or library has no section
FindSectionBegin ==
    /\ UNCHANGED notMachO
    /\ mo.pc = "start"
    /\ mo' = IF mo.image.header = "MH_MAGIC_64"
             THEN [mo EXCEPT !.pc = "scan"]
             ELSE [mo EXCEPT !.pc = "done", !.result = NoSection]

\* find_section, lines 119-139: one turn of the loop over the load commands;
\* failures lists the read and parse failures met on the way
FindSectionCommand ==
    /\ UNCHANGED notMachO
    /\ mo.pc = "scan"
    /\ IF mo.index > Len(mo.image.commands)
       THEN mo' = [mo EXCEPT !.pc = "done", !.result = NoSection]
       ELSE LET command == mo.image.commands[mo.index]
                in_segment == find_section_in_segment(command)
            IN  IF command.header # "ok"
                THEN mo' = [mo EXCEPT !.pc = "done", !.result = MachError(command.header),
                                      !.failures = Append(@, command.header)]
                ELSE IF command.cmd = "LC_SEGMENT_64"
                THEN IF ReturnsFromLoop(in_segment)
                     THEN mo' = [mo EXCEPT !.pc = "done", !.result = in_segment]
                     ELSE mo' = [mo EXCEPT !.index = @ + command.cmdsize,
                                           !.turns = (@ + 1) % MaxPolls,
                                           !.failures =
                                               IF in_segment.kind = "Ok" THEN @
                                               ELSE Append(@, IF command.segment # "ok"
                                                              THEN command.segment
                                                              ELSE command.sections)]
                ELSE mo' = [mo EXCEPT !.index = @ + command.cmdsize,
                                      !.turns = (@ + 1) % MaxPolls]

(***************************************************************************)
(* linux_ptrace_dumper.rs: the queries get_stack_info and                  *)
(* get_thread_info_by_index on one dumper.  The addresses are below 2^31.  *)
(***************************************************************************)
\* line 271: let stack_to_capture = 32 * 1024
stack_to_capture == 32768

\* what sysconf(PAGE_SIZE) answers: a power of two, or 0 for its error
PageSizes == {0, 4096, 16384}

\* the stacks of the target: a main stack longer than stack_to_capture, a
\* thread stack shorter than it, and a page next to a hole
MainStack == MappingInfo(2130575360, 135168, FALSE, 2130575360, 2130710528)
ThreadStack == MappingInfo(2113929216, 8192, FALSE, 2113929216, 2113937408)
StackLists ==
    { << >>, << ThreadStack >>, << CodePage, ThreadStack, MainStack >>,
      << Library, MainStack >> }

\* the stack pointers asked for: in each stack at its start, inside a page,
\* in its last page and at its last byte, and outside every mapping
StackPointerCases ==
    {0, 4095, 8192, 2113929216, 2113933320, 2113937407, 2113937408, 2130575360,
     2130575364, 2130677760, 2130677764, 2130694144, 2130710527, 2130710528}

\* a stack pointer that is taken as it is
KeepPointer(address, page_size) == address

\* line 268: int_stack_pointer & !(page_size as usize - 1)
AlignToPage(address, page_size) == address - (address % page_size)

StackInfoErr(why) == [kind |-> "Err", why |-> why, stack_pointer |-> 0, stack_len |-> 0]

\* get_stack_info, lines 262-281
get_stack_info(maps, int_stack_pointer, page_size) ==
    IF page_size = 0 THEN StackInfoErr("sysconf")
    ELSE LET stack_pointer == AlignToPage(int_stack_pointer, page_size)
             found == find_mapping(maps, stack_pointer)
         IN  IF found = 0 THEN StackInfoErr("No mapping for stack pointer found")
             ELSE LET mapping == maps[found]
                      offset == stack_pointer - mapping.start_address
                      distance_to_end == mapping.size - offset
                      stack_len == Min(distance_to_end, stack_to_capture)
                  IN  [kind |-> "Ok", why |-> "", stack_pointer |-> stack_pointer,
                       stack_len |-> stack_len]

\* the thread lists of a dumper: the first n threads of the target
ThreadLists == {SubSeq(AllThreads, 1, n) : n \in 0..NumThreads}

\* line 246: if index > self.threads.len()
IndexOutOfBounds(index, len) == index > len

\* get_thread_info_by_index, lines 245-257: the list is indexed from 0, and
\* indexing at or past its length panics; ThreadInfo::create gives Ok or Err
get_thread_info_by_index(thr, index, created) ==
    IF IndexOutOfBounds(index, Len(thr))
    THEN [kind |-> "Err", why |-> "Index out of bounds!", tid |-> 0]
    ELSE IF index >= Len(thr)
         THEN [kind |-> "panic", why |-> "index out of bounds", tid |-> 0]
         ELSE IF created THEN [kind |-> "Ok", why |-> "", tid |-> thr[index + 1]]
              ELSE [kind |-> "Err", why |-> "ThreadInfo::create", tid |-> thr[index + 1]]

QueryInit ==
    \E maps \in StackLists, thr \in ThreadLists :
        qry = [pc |-> "ready", mappings |-> maps, threads |-> thr, call |-> "none",
               arg |-> 0, page_size |-> 0, ret |-> StackInfoErr("")]

GetStackInfo ==
    /\ UNCHANGED notQuery
    /\ qry.pc = "ready"
    /\ \E int_stack_pointer \in StackPointerCases, page_size \in PageSizes :
          qry' = [qry EXCEPT !.call = "get_stack_info", !.arg = int_stack_pointer,
                             !.page_size = page_size,
                             !.ret = get_stack_info(qry.mappings, int_stack_pointer,
                                                    page_size)]

GetThreadInfoByIndex ==
    /\ UNCHANGED notQuery
    /\ qry.pc = "ready"
    /\ \E index \in 0..(NumThreads + 1), created \in BOOLEAN :
          qry' = [qry EXCEPT !.call = "get_thread_info_by_index", !.arg = index,
                             !.page_size = 0,
                             !.ret = get_thread_info_by_index(qry.threads, index, created)]

(***************************************************************************)
(* linux_ptrace_dumper.rs: one dumper on which suspend_threads and         *)
(* resume_threads are called in any order, and which is then dropped.      *)
(* ptrace::attach fails on a thread this process has attached already.     *)
(***************************************************************************)
\* the calls made on the dumper before it is dropped
MaxCalls == 3

\* the dumper after LinuxPtraceDumper::new: every thread of the target is in
\* the list and none is attached
CallsInit ==
    /\ pc = "api"
    /\ result = "none"
    /\ threads = AllThreads
    /\ threads_suspended = FALSE
    /\ tstate = [t \in Tids |-> "running"]
    /\ sp_zero \in SUBSET Tids
    /\ deaths = 0
    /\ calls = << >>

\* what a call leaves in the log
Called(op, ok, detach, failed) ==
    [op |-> op, ok |-> ok, detach |-> detach, failed |-> failed]

\* suspend_threads, lines 129-142
CallSuspendThreads ==
    /\ UNCHANGED notCalls
    /\ pc = "api"
    /\ Len(calls) < MaxCalls
    /\ \E o \in [Tids -> SuspendOutcomes] :
          LET kept == SelectSeq(threads, LAMBDA t : SuspendThreadOk(t, o[t], tstate, sp_zero))
          IN  /\ threads' = kept
              /\ tstate' = [t \in Tids |->
                              IF t \in Range(kept) THEN "attached" ELSE tstate[t]]
              /\ threads_suspended' = (SuspendThreadsReturn(kept) \/ threads_suspended)
              /\ result' = IF SuspendThreadsReturn(kept) THEN "ok" ELSE "err_no_threads"
              /\ calls' = Append(calls, Called("suspend_threads", SuspendThreadsReturn(kept),
                                               << >>, << >>))
    /\ UNCHANGED << pc, configVars, deaths, sinkVars, genVars >>

\* resume_threads, lines 144-158
CallResumeThreads ==
    /\ UNCHANGED notCalls
    /\ pc = "api"
    /\ Len(calls) < MaxCalls
    /\ LET r == ResumeThreads(threads, threads_suspended, tstate)
       IN  /\ tstate' = r.tstate
           /\ threads_suspended' = FALSE
           /\ result' = IF r.ok THEN "ok" ELSE "err_resume"
           /\ calls' = Append(calls, Called("resume_threads", r.ok, r.detach, r.failed))
    /\ UNCHANGED << pc, configVars, threads, deaths, sinkVars, genVars >>

\* the dumper goes out of scope, lines 28-33
CallDrop ==
    /\ UNCHANGED notCalls
    /\ pc = "api"
    /\ LET r == ResumeThreads(threads, threads_suspended, tstate)
       IN  /\ tstate' = DropDumper(threads, threads_suspended, tstate)
           /\ calls' = Append(calls, Called("drop", TRUE, r.detach, r.failed))
    /\ threads_suspended' = FALSE
    /\ pc' = "dropped"
    /\ UNCHANGED << result, configVars, threads, deaths, sinkVars, genVars >>

\* the target: a thread exits or is killed between two calls
ThreadGone ==
    /\ UNCHANGED notCalls
    /\ pc = "api"
    /\ \E t \in Tids :
          /\ tstate[t] # "gone"
          /\ tstate' = [tstate EXCEPT ![t] = "gone"]
    /\ deaths' = deaths + 1
    /\ UNCHANGED << pc, result, configVars, threads, threads_suspended, calls, sinkVars,
                    genVars >>

(***************************************************************************)
(* linux_ptrace_dumper.rs: one call of suspend_thread, a step for each     *)
(* call it makes to the kernel.                                            *)
(***************************************************************************)
\* what waitpid answers: a status, EINTR, or another error
WaitResults == {"Ok", "EINTR", "ECHILD", "EINVAL"}
\* what getregs answers: registers with a stack pointer, with esp == 0, or an error
RegsResults == {"esp", "esp_zero", "Err"}

SuspendThreadInit ==
    \E child \in Tids, regs \in RegsResults, detaches \in BOOLEAN :
        st = [pc |-> "attach", child |-> child, regs |-> regs, detaches |-> detaches,
              polls |-> 0, waited |-> "none", attached |-> FALSE, ret |-> "none"]

\* line 80: ptrace::attach(pid)?
Attach ==
    /\ UNCHANGED notSuspendThread
    /\ st.pc = "attach"
    /\ \/ st' = [st EXCEPT !.pc = "wait", !.attached = TRUE]
       \/ st' = [st EXCEPT !.pc = "done", !.ret = "Err(attach)"]

\* ptrace::detach(pid, None)?, then the error `why`
DetachAndFail(why) ==
    IF st.detaches
    THEN [st EXCEPT !.pc = "done", !.attached = FALSE, !.ret = why]
    ELSE [st EXCEPT !.pc = "done", !.ret = "Err(detach)"]

\* lines 81-90: one turn of the loop around waitpid
WaitPid ==
    /\ UNCHANGED notSuspendThread
    /\ st.pc = "wait"
    /\ \E r \in WaitResults :
          LET turn == [st EXCEPT !.polls = (@ + 1) % MaxPolls, !.waited = r]
          IN  st' = CASE r = "Ok" -> [turn EXCEPT !.pc = "getregs"]
                      [] r = "EINTR" ->
                           [DetachAndFail("Err(EINTR)") EXCEPT !.polls = turn.polls,
                                                               !.waited = r]
                      [] OTHER -> turn

\* lines 91-118: the stack pointer is looked at
GetRegs ==
    /\ UNCHANGED notSuspendThread
    /\ st.pc = "getregs"
    /\ st' = IF st.regs = "esp" THEN [st EXCEPT !.pc = "done", !.ret = "Ok"]
             ELSE DetachAndFail("Err(skipped)")

(***************************************************************************)
(* process_reader.rs read_all over mac/process_reader.rs read: what        *)
(* mach_vm_read_overwrite stores in `size` is returned as the count.       *)
(***************************************************************************)
\* mac read, lines 79-101: an error of the kernel, or Ok(size) with the size
\* the kernel stored, which read does not compare with dst.len()
MachRead(src, len) ==
    IF ReadableRun(src, len) < len THEN {ReadFailed("KERN_INVALID_ADDRESS", 0)}
    ELSE {BytesRead(MemBytes(src, k)) : k \in 0..len}

\* read_all is called with a destination that is not empty; the calls of
\* read are counted modulo MaxPolls
MachReadAllBegin ==
    /\ UNCHANGED notReadAll
    /\ UNCHANGED memVars
    /\ ra.pc = "idle"
    /\ \E src \in Addrs, n \in 1..MemSize :
          ra' = [pc |-> "loop", style |-> "Mach", src |-> src, n |-> n, offset |-> 0,
                 dst |-> Zeros(n), ret |-> NoResult, reads |-> 0]

\* lines 28-30: while offset < dst.len() { offset += read(src + offset, &mut dst[offset..])? }
MachReadAllIter ==
    /\ UNCHANGED notReadAll
    /\ UNCHANGED memVars
    /\ ra.pc = "loop"
    /\ ra.offset < ra.n
    /\ \E r \in MachRead(ra.src + ra.offset, ra.n - ra.offset) :
          ra' = IF r.ok
                THEN [ra EXCEPT !.dst = WriteAt(@, ra.offset, r.bytes),
                                !.offset = @ + Len(r.bytes),
                                !.reads = (@ + 1) % MaxPolls]
                ELSE [ra EXCEPT !.pc = "done",
                                !.ret = ReadErr(r.source, r.offset, ra.src + ra.offset,
                                                ra.n - ra.offset)]

(***************************************************************************)
(* Specifications.                                                         *)
(***************************************************************************)
MemIdle ==
    /\ mem = << >>
    /\ readable = {}
ReadAllIdle == ra = [pc |-> "idle"]
StringIdle == sc = [pc |-> "idle"]
SanitizerIdle == san = [pc |-> "idle"]
EnumeratorIdle == en = [pc |-> "idle"]
ElfIdle == elf = [pc |-> "idle"]
ModuleMemoryIdle == mm = [pc |-> "idle"]
MachOIdle == mo = [pc |-> "idle"]
QueryIdle == qry = [pc |-> "idle"]
CallsIdle == calls = << >>
SuspendThreadIdle == st = [pc |-> "idle"]
DumperIdle == QueryIdle /\ CallsIdle /\ SuspendThreadIdle
ModuleIdle == ElfIdle /\ ModuleMemoryIdle /\ MachOIdle /\ DumperIdle

\* one call of MinidumpWriter::dump
Init ==
    /\ DumpInit /\ ReaderIdle /\ MemIdle /\ ReadAllIdle /\ StringIdle /\ SanitizerIdle
    /\ EnumeratorIdle /\ ModuleIdle

Next ==
    \/ DumperNew
    \/ SuspendThreads
    \/ CheckSkipStacks
    \/ GenHeader
    \/ WriteStream
    \/ DumpDirEntry
    \/ FlushToFile
    \/ SinkError
    \/ ResumeThreadsCall
    \/ DumperDrop
    \/ ThreadDies

Spec == Init /\ [][Next]_vars

\* one ProcessReader whose callers make their calls one after the other
ReaderSeqInit ==
    /\ ReaderInit /\ DumpIdle /\ MemIdle /\ ReadAllIdle /\ StringIdle /\ SanitizerIdle
    /\ EnumeratorIdle /\ ModuleIdle

ReaderSeqNext ==
    \E c \in Callers :
        \/ ReadBegin(c, TRUE)
        \/ ProbeVmem(c)
        \/ ProbeFile(c)
        \/ ProbePtrace(c)

SpecReader == ReaderSeqInit /\ [][ReaderSeqNext]_vars

\* one ProcessReader shared by threads that call read concurrently
ReaderConcNext ==
    \E c \in Callers :
        \/ ReadBegin(c, FALSE)
        \/ ProbeVmem(c)
        \/ ProbeFile(c)
        \/ ProbePtrace(c)

SpecReaderConc == ReaderSeqInit /\ [][ReaderConcNext]_vars

\* one call of read_all on a reader whose style is set
ReadAllInit ==
    /\ MemInit /\ ReadAllIdle /\ DumpIdle /\ ReaderIdle /\ StringIdle /\ SanitizerIdle
    /\ EnumeratorIdle /\ ModuleIdle

ReadAllNext ==
    \/ ReadAllBegin
    \/ ReadAllIter
    \/ ReadAllReturn

SpecReadAll == ReadAllInit /\ [][ReadAllNext]_vars

\* one call of copy_nul_terminated_string on a reader whose style is set
StringInit ==
    /\ MemInit /\ StringIdle /\ DumpIdle /\ ReaderIdle /\ ReadAllIdle /\ SanitizerIdle
    /\ EnumeratorIdle /\ ModuleIdle

StringNext ==
    \/ StringBegin
    \/ WordStep
    \/ CopyByteByByte

SpecString == StringInit /\ [][StringNext]_vars

\* one call of sanitize_stack_copy
SanitizerSpecInit ==
    /\ SanitizerInit /\ DumpIdle /\ ReaderIdle /\ MemIdle /\ ReadAllIdle /\ StringIdle
    /\ EnumeratorIdle /\ ModuleIdle

SanitizerNext == SanitizeStackCopyCall

SpecSanitizer == SanitizerSpecInit /\ [][SanitizerNext]_vars

\* the mappings of one dumper: enumerate_mappings, then calls of find_mapping
EnumeratorSpecInit ==
    /\ EnumeratorInit /\ DumpIdle /\ ReaderIdle /\ MemIdle /\ ReadAllIdle /\ StringIdle
    /\ SanitizerIdle /\ ModuleIdle

EnumeratorNext ==
    \/ EnumerateMappings
    \/ FindMapping

SpecEnumerator == EnumeratorSpecInit /\ [][EnumeratorNext]_vars

\* one call of elf_file_identifier_from_mapped_file
ElfSpecInit ==
    /\ ElfInit /\ ModuleMemoryIdle /\ MachOIdle /\ DumperIdle /\ DumpIdle /\ ReaderIdle /\ MemIdle
    /\ ReadAllIdle /\ StringIdle /\ SanitizerIdle /\ EnumeratorIdle

ElfNext == ElfFileIdentifier

SpecElf == ElfSpecInit /\ [][ElfNext]_vars

\* one call on one ModuleMemory
ModuleMemorySpecInit ==
    /\ ModuleMemoryInit /\ ElfIdle /\ MachOIdle /\ DumperIdle /\ DumpIdle /\ ReaderIdle /\ MemIdle
    /\ ReadAllIdle /\ StringIdle /\ SanitizerIdle /\ EnumeratorIdle

ModuleMemoryNext ==
    \/ ModuleMemoryRead
    \/ AbsoluteToRelative
    \/ RelativeToAbsolute

SpecModuleMemory == ModuleMemorySpecInit /\ [][ModuleMemoryNext]_vars

\* one call of the Mach-O ModuleReader::find_section
MachOSpecInit ==
    /\ MachOInit /\ ElfIdle /\ ModuleMemoryIdle /\ DumperIdle /\ DumpIdle /\ ReaderIdle /\ MemIdle
    /\ ReadAllIdle /\ StringIdle /\ SanitizerIdle /\ EnumeratorIdle

MachONext ==
    \/ FindSectionBegin
    \/ FindSectionCommand

SpecMachO == MachOSpecInit /\ [][MachONext]_vars

\* one call of find_section on an image whose load commands may have a
\* cmdsize of 0; the calling thread keeps running
MachOAnySizeSpecInit ==
    /\ MachOAnySizeInit /\ ElfIdle /\ ModuleMemoryIdle /\ DumperIdle /\ DumpIdle
    /\ ReaderIdle /\ MemIdle /\ ReadAllIdle /\ StringIdle /\ SanitizerIdle
    /\ EnumeratorIdle

SpecMachOAnySize ==
    MachOAnySizeSpecInit /\ [][MachONext]_vars /\ WF_vars(MachONext)

\* one dumper is asked for stack ranges and for the info of its threads
QuerySpecInit ==
    /\ QueryInit /\ CallsIdle /\ SuspendThreadIdle /\ ElfIdle /\ ModuleMemoryIdle /\ MachOIdle
    /\ DumpIdle /\ ReaderIdle /\ MemIdle /\ ReadAllIdle /\ StringIdle /\ SanitizerIdle
    /\ EnumeratorIdle

QueryNext ==
    \/ GetStackInfo
    \/ GetThreadInfoByIndex

SpecQuery == QuerySpecInit /\ [][QueryNext]_vars

\* one dumper: calls of suspend_threads and resume_threads, then its drop
CallsSpecInit ==
    /\ CallsInit
    /\ skip_stacks_if_mapping_unreferenced = FALSE
    /\ principal_mapping_address = "None"
    /\ principal_mapping = "None"
    /\ file_errors = {}
    /\ gpc = "done"
    /\ stream = 0
    /\ dirent = DefaultDirectory
    /\ buffer = << >>
    /\ sink = << >>
    /\ sink_pos = 0
    /\ curr_idx = 0
    /\ dir_position = 0
    /\ destination_start_offset = 0
    /\ last_position_written_to_file = 0
    /\ QueryIdle /\ SuspendThreadIdle /\ ElfIdle /\ ModuleMemoryIdle /\ MachOIdle
    /\ ReaderIdle /\ MemIdle /\ ReadAllIdle /\ StringIdle /\ SanitizerIdle
    /\ EnumeratorIdle

CallsNext ==
    \/ CallSuspendThreads
    \/ CallResumeThreads
    \/ CallDrop
    \/ ThreadGone

SpecCalls == CallsSpecInit /\ [][CallsNext]_vars

\* one call of suspend_thread; the thread that makes the call keeps running
SuspendThreadSpecInit ==
    /\ SuspendThreadInit /\ QueryIdle /\ CallsIdle /\ ElfIdle /\ ModuleMemoryIdle
    /\ MachOIdle /\ DumpIdle /\ ReaderIdle /\ MemIdle /\ ReadAllIdle /\ StringIdle
    /\ SanitizerIdle /\ EnumeratorIdle

SuspendThreadNext ==
    \/ Attach
    \/ WaitPid
    \/ GetRegs

SpecSuspendThread ==
    SuspendThreadSpecInit /\ [][SuspendThreadNext]_vars /\ WF_vars(SuspendThreadNext)

\* one call of read_all on the mac reader; the calling thread keeps running
MachReadAllInit ==
    /\ mem = MemoryOf({})
    /\ \E hi \in 0..MemSize : readable = 0..(hi - 1)
    /\ ReadAllIdle /\ DumpIdle /\ ReaderIdle /\ StringIdle /\ SanitizerIdle
    /\ EnumeratorIdle /\ ModuleIdle

MachReadAllNext ==
    \/ MachReadAllBegin
    \/ MachReadAllIter
    \/ ReadAllReturn

SpecMachReadAll ==
    MachReadAllInit /\ [][MachReadAllNext]_vars /\ WF_vars(MachReadAllNext)

(***************************************************************************)
(* Properties of the dump writer.                                          *)
(***************************************************************************)
\* where directory slot i lies in the sink
SinkSlot(i) == destination_start_offset + dir_position + i * SizeOfDirectory

\* the directory entries that are present in the sink and not all-zero
SinkEntries ==
    {i \in 0..(num_writers - 1) :
        /\ dir_position > 0
        /\ Len(sink) >= SinkSlot(i) + SizeOfDirectory
        /\ DecodeDirectory(sink, SinkSlot(i)) # DefaultDirectory}

\* C1: whenever a non-zero directory entry is present in the sink, the bytes
\* [rva, rva+size) of the stream body it refers to are already in the sink:
\* the body is flushed before the entry is patched
C1_EntryRefersToWrittenBody ==
    \A i \in SinkEntries :
        LET e == DecodeDirectory(sink, SinkSlot(i))
            from == destination_start_offset + e.rva
        IN  /\ from + e.data_size <= Len(sink)
            /\ Slice(sink, from, from + e.data_size)
                 = Slice(buffer, e.rva, e.rva + e.data_size)

\* C2: when dump has returned, on whatever path, no thread of the dumper's
\* list is still attached
C2_ReturnedThreadsDetached ==
    pc = "returned" => \A t \in Range(threads) : tstate[t] # "attached"

\* dump returned with a stream writer's error after all threads were attached
C2_Witness ==
    /\ pc = "returned"
    /\ result = "err_stream"
    /\ Len(threads) = NumThreads
    /\ \A t \in Tids : tstate[t] = "running"

(***************************************************************************)
(* Properties of the Linux ProcessReader.                                  *)
(***************************************************************************)
StyleKinds == {"VirtualMem", "File", "Ptrace", "Unavailable"}

\* C3: the style is set at most once: the only change of it is from unset to
\* one of VirtualMem, File, Ptrace, Unavailable, and no call of read changes a
\* style that is set
C3_StyleSetAtMostOnce ==
    [][/\ style.kind # "Unset" => style' = style
       /\ style.kind = "Unset" => style'.kind \in StyleKinds \cup {"Unset"}]_vars

\* a first read set the style, a later read failed on that style's backend,
\* and the style stayed
C3_Witness ==
    \E c \in Callers, d \in Callers :
        /\ rcall[c].pc = "done"
        /\ rcall[c].began = "Unset"
        /\ rcall[c].ret.ok
        /\ rcall[d].pc = "done"
        /\ rcall[d].began \in {"VirtualMem", "File", "Ptrace"}
        /\ ~rcall[d].ret.ok
        /\ style.kind = rcall[d].began

ProbeOrder == << "vmem", "file", "ptrace" >>
BackendOf(kind) ==
    CASE kind = "VirtualMem" -> "vmem" [] kind = "File" -> "file" [] kind = "Ptrace" -> "ptrace"
KindOf(backend) ==
    CASE backend = "vmem" -> "VirtualMem" [] backend = "file" -> "File"
      [] backend = "ptrace" -> "Ptrace"

\* the first read of the scenario: process_vm_readv fails with ENOSYS,
\* /proc/<pid>/mem fails with EIO on the read, the peek succeeds
PeekScenario == << << "vmem", "ENOSYS" >>, << "file", "EIO" >>, << "ptrace", "ok" >> >>

\* C4: the first read tries process_vm_readv, /proc/<pid>/mem, ptrace in this
\* order and stores the first that succeeds; a read made with a style set
\* invokes that backend only, also when it fails; after the scenario's first
\* read the style is Ptrace
C4_ProbeOrderAndCaching ==
    \A c \in Callers :
        rcall[c].pc = "done" =>
            LET r == rcall[c]
                n == Len(r.log)
            IN  /\ r.began \in {"VirtualMem", "File", "Ptrace"} =>
                      /\ n = 1
                      /\ r.log[1][1] = BackendOf(r.began)
                      /\ style.kind = r.began
                /\ r.began = "Unset" =>
                      /\ n >= 1
                      /\ \A i \in 1..n : r.log[i][1] = ProbeOrder[i]
                      /\ \A i \in 1..(n - 1) : r.log[i][2] # "ok"
                      /\ r.ret.ok <=> r.log[n][2] = "ok"
                      /\ r.ret.ok => style.kind = KindOf(r.log[n][1])
                      /\ ~r.ret.ok => n = 3
                /\ r.log = PeekScenario => style = StyleOf("Ptrace")

\* after the scenario's first read, a later read was served by the peek alone
\* and failed
C4_Witness ==
    /\ rcall[1].pc = "done"
    /\ rcall[1].began = "Unset"
    /\ rcall[1].log = PeekScenario
    /\ rcall[2].pc = "done"
    /\ rcall[2].began = "Ptrace"
    /\ rcall[2].log = << << "ptrace", "EIO" >> >>
    /\ style = StyleOf("Ptrace")

\* C5: when all three backends fail on the first read the style becomes
\* Unavailable with the three errors and that read returns the peek's error
\* with offset 0; every later read returns that same error with offset 0 and
\* invokes no backend, whatever its address and length
C5_UnavailableIsFinal ==
    \A c \in Callers :
        rcall[c].pc = "done" =>
            LET r == rcall[c]
            IN  /\ (r.began = "Unset" /\ ~r.ret.ok) =>
                      /\ style = StyleUnavailable(r.log[1][2], r.log[2][2], r.log[3][2])
                      /\ r.ret = ReadErr(r.log[3][2], 0, r.src, r.len)
                /\ r.began = "Unavailable" =>
                      /\ r.log = << >>
                      /\ style.kind = "Unavailable"
                      /\ r.ret = ReadErr(style.ptrace, 0, r.src, r.len)

\* the first read failed on all three backends and a later read, of another
\* address and length, got the peek's error
C5_Witness ==
    /\ rcall[1].pc = "done"
    /\ rcall[1].began = "Unset"
    /\ Len(rcall[1].log) = 3
    /\ ~rcall[1].ret.ok
    /\ rcall[2].pc = "done"
    /\ rcall[2].began = "Unavailable"
    /\ rcall[2].src # rcall[1].src
    /\ rcall[2].len # rcall[1].len
    /\ rcall[2].ret.source = rcall[1].log[3][2]

\* C6: concurrent first reads agree on one style: one call stores it, the
\* other stores are rejected, and every call still returns its read result;
\* no call panics
C6_ConcurrentFirstReadsReturn ==
    \A c \in Callers : rcall[c].pc # "panicked"

(***************************************************************************)
(* Properties of read_all and copy_nul_terminated_string.                  *)
(***************************************************************************)
\* C7: a read_all of a range that is readable returns Ok with dst equal to the
\* target's bytes of the range, for every backend and every short count
C7_ReadAllReturnsTargetBytes ==
    (/\ ra.pc = "done"
     /\ \A i \in 0..(ra.n - 1) : ra.src + i \in readable)
        => /\ ra.ret.ok
           /\ ra.dst = MemBytes(ra.src, ra.n)

\* the nul-terminated string at address, when all of it is readable
HasString(address) ==
    \E z \in readable : z >= address /\ mem[z] = 0 /\ \A a \in address..z : a \in readable
ExpectedString(address) ==
    LET z == SetMin({a \in Addrs : a >= address /\ mem[a] = 0})
    IN  MemBytes(address, z - address + 1)

C38_ReadAllTerminates ==
    <>(/\ ra.pc = "done"
       /\ ra.ret.ok => ra.dst = MemBytes(ra.src, ra.n))

(***************************************************************************)
(* Properties of sanitize_stack_copy.                                      *)
(***************************************************************************)
\* the 0-based positions of the complete words at or above the sp offset
WordPositions ==
    {p \in AlignedOffset(san.sp_offset)..(Len(san.input) - WORD_SIZE) :
        (p - AlignedOffset(san.sp_offset)) % WORD_SIZE = 0}

Overwritten(p) ==
    /\ Slice(san.stack_copy, p, p + WORD_SIZE) = defaced
    /\ Slice(san.input, p, p + WORD_SIZE) # defaced

\* C9: no word that was overwritten with the sentinel held a value that lies
\* in the kernel-reported range of an executable mapping
C9_NoFalseNegative ==
    san.pc = "done" =>
        \A p \in WordPositions :
            Overwritten(p) =>
                ~\E i \in DOMAIN san.mappings :
                    /\ san.mappings[i].executable
                    /\ contains_address(san.mappings[i], FromNeBytes(san.input, p))

\* C10: every word at or above the sp offset whose signed value is in
\* [-4096, 4096] is left as it was
C10_SmallIntegersKept ==
    san.pc = "done" =>
        \A p \in WordPositions :
            (/\ FromNeBytes(san.input, p) >= -small_int_magnitude
             /\ FromNeBytes(san.input, p) <= small_int_magnitude)
                => Slice(san.stack_copy, p, p + WORD_SIZE) = Slice(san.input, p, p + WORD_SIZE)

\* the word of the input at p lies in the stack's own mapping or in an
\* executable mapping (the last-hit mapping is one of these)
Justified(p) ==
    LET addr == FromNeBytes(san.input, p)
        stack_mapping == find_mapping_no_bias(san.mappings, san.stack_pointer)
    IN  \/ stack_mapping # 0 /\ contains_address(san.mappings[stack_mapping], addr)
        \/ \E i \in DOMAIN san.mappings :
              san.mappings[i].executable /\ contains_address(san.mappings[i], addr)

LargeWord(p) ==
    \/ FromNeBytes(san.input, p) > small_int_magnitude
    \/ FromNeBytes(san.input, p) < -small_int_magnitude

Kept(p) == Slice(san.stack_copy, p, p + WORD_SIZE) = Slice(san.input, p, p + WORD_SIZE)

\* C11: a complete word at or above the sp offset whose magnitude exceeds 4096
\* and that is left unchanged lies in the stack's mapping or in an executable
\* mapping; a word that lies in none of them is replaced by the sentinel;
\* 0x1800 is kept when [0x1000, 0x2000) is executable and replaced when that
\* mapping is not executable
C11_KeptWordsAreJustified ==
    san.pc = "done" =>
        \A p \in WordPositions :
            LargeWord(p) =>
                /\ Kept(p) => Justified(p)
                /\ ~Justified(p) => Slice(san.stack_copy, p, p + WORD_SIZE) = defaced
                /\ (FromNeBytes(san.input, p) = 6144 /\ CodePage \in Range(san.mappings))
                      => Kept(p)
                /\ (FromNeBytes(san.input, p) = 6144 /\ DataPage \in Range(san.mappings))
                      => Slice(san.stack_copy, p, p + WORD_SIZE) = defaced

\* 0x1800 was kept because the page at 0x1000 is executable, and in the same
\* stack a word that lies in no mapping was replaced
C11_Witness ==
    /\ san.pc = "done"
    /\ CodePage \in Range(san.mappings)
    /\ \E p \in WordPositions, q \in WordPositions :
          /\ FromNeBytes(san.input, p) = 6144
          /\ Kept(p)
          /\ FromNeBytes(san.input, q) = 305419896
          /\ Slice(san.stack_copy, q, q + WORD_SIZE) = defaced

(***************************************************************************)
(* Properties of the enumerator's mappings.                                *)
(***************************************************************************)
\* the indices of the mappings whose range [start_address, start_address + size)
\* holds the address
Holding(maps, address) ==
    {i \in DOMAIN maps :
        maps[i].start_address <= address /\ address < maps[i].start_address + maps[i].size}

\* C12: for every mapping M of the list, also after the swap, and every
\* address of M's range find_mapping returns M; for an address in no
\* mapping's range it returns None
C12_FindMappingReturnsTheMapping ==
    en.pc = "ready" =>
        /\ \A i \in DOMAIN en.mappings, x \in 0..MaxAddr :
              i \in Holding(en.mappings, x) => find_mapping(en.mappings, x) = i
        /\ \A x \in 0..MaxAddr :
              Holding(en.mappings, x) = {} => find_mapping(en.mappings, x) = 0
        /\ en.address >= 0 =>
              IF Holding(en.mappings, en.address) = {} THEN en.found = 0
              ELSE Holding(en.mappings, en.address) = {en.found}

\* after a swap, find_mapping found the mapping that is now last for an
\* address of it, and that mapping begins where another one ends
C12_Witness ==
    /\ en.pc = "ready"
    /\ en.mappings # en.parsed
    /\ Len(en.mappings) = MaxMappings
    /\ en.found = MaxMappings
    /\ \E i \in DOMAIN en.mappings :
          en.mappings[i].start_address + en.mappings[i].size = en.address

\* C15: when AT_ENTRY is present, not zero and covered by a mapping,
\* mappings[0] covers it and the list is the parsed one with index 0 and the
\* index of the first covering mapping exchanged; otherwise the list is the
\* parsed one
C15_EntryPointFirst ==
    en.pc = "ready" =>
        LET covering == Holding(en.parsed, en.auxv_entry.value)
        IN  IF en.auxv_entry.present /\ en.auxv_entry.value # 0 /\ covering # {}
            THEN /\ 1 \in Holding(en.mappings, en.auxv_entry.value)
                 /\ Len(en.mappings) = Len(en.parsed)
                 /\ en.mappings[1] = en.parsed[SetMin(covering)]
                 /\ en.mappings[SetMin(covering)] = en.parsed[1]
                 /\ \A i \in DOMAIN en.parsed :
                       i \notin {1, SetMin(covering)} => en.mappings[i] = en.parsed[i]
            ELSE en.mappings = en.parsed

\* the last of three mappings covers the entry point and was exchanged with
\* the first
C15_Witness ==
    /\ en.pc = "ready"
    /\ Len(en.parsed) = 3
    /\ en.auxv_entry.present
    /\ Holding(en.parsed, en.auxv_entry.value) = {3}
    /\ en.mappings = << en.parsed[3], en.parsed[2], en.parsed[1] >>

(***************************************************************************)
(* Properties of suspend_threads.                                          *)
(***************************************************************************)
\* s is t with some of its elements left out, the others in t's order
IsSubSeq(s, t) ==
    \E keep \in SUBSET DOMAIN t : s = SelectSeq(t, LAMBDA x : \E i \in keep : t[i] = x)

ThreadListEntry == DecodeDirectory(buffer, dir_position)

SlotOf(k) == Cardinality({j \in 1..(k - 1) : HasDirent(j)})

\* the streams whose directory entry dump_dir_entry has set so far
PatchedStreams ==
    {k \in 1..NumStreams : HasDirent(k) /\ dir_position > 0 /\ SlotOf(k) < curr_idx}

\* the entry of stream k as the buffer holds it, and the bytes it refers to
BufferEntry(k) == DecodeDirectory(buffer, LocationOfIndex(dir_position, SlotOf(k)).rva)
BufferBody(k) == Slice(buffer, BufferEntry(k).rva, BufferEntry(k).rva + BufferEntry(k).data_size)

\* C16: a raw file that cannot be read does not fail the dump: the entry at
\* the slot of its stream is all zero, in the buffer and in the sink, the
\* slot index has moved past it, and every stream whose own file is readable
\* (or that reads no file) has its own slot, its type and the body it has
\* when every file is readable; /etc/os-release stands in for an unreadable
\* /etc/lsb-release
C16_FileFailureLeavesZeroEntry ==
    /\ result = "err_stream" => stream \notin FileStreams
    /\ (pc = "gen" /\ gpc = "stream") => curr_idx = SlotOf(stream)
    /\ (pc = "gen" /\ gpc = "flush" /\ stream >= 1) => curr_idx = SlotOf(stream + 1)
    /\ \A k \in PatchedStreams :
          LET e == BufferEntry(k)
              body == Slice(buffer, e.rva, e.rva + e.data_size)
          IN  /\ Slice(sink, SinkSlot(SlotOf(k)), SinkSlot(SlotOf(k)) + SizeOfDirectory)
                   = EncodeDirectory(e)
              /\ IF k \in FileStreams /\ FileRead(k, file_errors) = "none"
                 THEN e = DefaultDirectory
                 ELSE /\ e.stream_type = StreamType(k)
                      /\ (k \in FileStreams /\ FileOf(k) \notin file_errors)
                            => body = BodyOf(k, threads, {})
                      /\ (k \in FileStreams /\ FileOf(k) \in file_errors)
                            => body = WriteFileContent("os_release")
                      /\ k \notin FileStreams => body = BodyOf(k, threads, {})

\* /proc/<tid>/status could not be read and the dump succeeded: the entry of
\* the status stream is zero, the thirteen slots are all used and the streams
\* around it have their bodies
C16_Witness ==
    /\ pc = "returned"
    /\ result = "ok"
    /\ file_errors = {"status"}
    /\ curr_idx = num_writers
    /\ BufferEntry(8) = DefaultDirectory
    /\ BufferBody(7) = FileContent("cpuinfo")
    /\ BufferBody(9) = FileContent("lsb_release")
    /\ BufferEntry(14).stream_type = StreamType(14)

\* the streams whose entry in the buffer has a non-zero location
LocatedStreams ==
    {k \in PatchedStreams : BufferEntry(k).rva # 0 \/ BufferEntry(k).data_size # 0}

\* C17: at every moment from its patching on, an entry with a non-zero
\* location lies past the header and the directory and inside the buffer,
\* the bytes it refers to are the body its stream appended, and the bodies
\* of two entries do not overlap: no append and no patch of the directory
\* writes over a body
C17_EntriesReferToAppendedBodies ==
    LET entry == [k \in PatchedStreams |-> BufferEntry(k)]
        located == {k \in DOMAIN entry : entry[k].rva # 0 \/ entry[k].data_size # 0}
    IN  \A k \in located :
            /\ entry[k].rva >= dir_position + num_writers * SizeOfDirectory
            /\ entry[k].rva + entry[k].data_size <= Len(buffer)
            /\ Slice(buffer, entry[k].rva, entry[k].rva + entry[k].data_size)
                 = BodyOf(k, threads, file_errors)
            /\ \A j \in located :
                  j < k => entry[j].rva + entry[j].data_size <= entry[k].rva

\* a finished dump of three threads with every file readable: the thirteen
\* entries are located, the last body ends the buffer and the first body is
\* still the thread list
C17_Witness ==
    /\ pc = "returned"
    /\ result = "ok"
    /\ file_errors = {}
    /\ Cardinality(LocatedStreams) = num_writers
    /\ BufferEntry(14).rva + BufferEntry(14).data_size = Len(buffer)
    /\ BufferBody(1) = << 1, 2, 3 >>

\* C18: when dump has returned Ok, the sink holds, from the position it had
\* when the dump began, the returned buffer byte for byte and nothing after
\* it, and what the sink held before that position is untouched
C18_SinkEqualsBuffer ==
    (pc = "returned" /\ result = "ok") =>
        /\ Slice(sink, destination_start_offset, Len(sink)) = buffer
        /\ Slice(sink, 0, destination_start_offset)
             = [i \in 1..destination_start_offset |-> 255]

\* a dump into a sink that already held StartOffset bytes has returned Ok
\* with all of its streams
C18_Witness ==
    /\ pc = "returned"
    /\ result = "ok"
    /\ destination_start_offset = StartOffset
    /\ curr_idx = num_writers
    /\ Len(buffer) > SizeOfHeader + num_writers * SizeOfDirectory
    /\ Len(sink) = StartOffset + Len(buffer)


\* the app-memory list among the streams
AppMemoryStream == CHOOSE k \in 1..NumStreams : StreamNames[k] = "app_memory"

\* C19: every stream but the app-memory list has exactly one directory
\* entry, at a slot of its own, and the entry is handed to the directory
\* when the body is already at the end of the buffer, with the body's
\* length as its size; the app-memory list is appended between the bodies
\* of the mappings and of the memory list and gets no entry
C19_OneEntryPerStreamButAppMemory ==
    /\ (pc = "gen" /\ gpc = "dirent") =>
          LET body == BodyOf(stream, threads, file_errors)
          IN  /\ stream # AppMemoryStream
              /\ curr_idx < num_writers
              /\ Slice(buffer, Len(buffer) - Len(body), Len(buffer)) = body
              /\ dirent # DefaultDirectory =>
                    /\ dirent.stream_type = StreamType(stream)
                    /\ dirent.rva = Len(buffer) - Len(body)
                    /\ dirent.data_size = Len(body)
    /\ (pc = "gen" /\ gpc = "flush" /\ stream >= 1) =>
          curr_idx = IF stream >= AppMemoryStream THEN stream - 1 ELSE stream
    /\ LET entry == [k \in PatchedStreams |-> BufferEntry(k)]
       IN  \A k \in DOMAIN entry :
              entry[k] # DefaultDirectory =>
                  \A j \in DOMAIN entry \ {k} :
                      entry[j].stream_type # entry[k].stream_type
    /\ (AppMemoryStream + 1) \in PatchedStreams =>
          BufferEntry(AppMemoryStream + 1).rva
            = BufferEntry(AppMemoryStream - 1).rva
                + BufferEntry(AppMemoryStream - 1).data_size
                + Len(StreamBody(AppMemoryStream, threads))
    /\ (pc = "returned" /\ result = "ok") =>
          /\ curr_idx = num_writers
          /\ PatchedStreams = 1..NumStreams \ {AppMemoryStream}

\* the app-memory list is in the buffer and the entry of the memory list,
\* the next stream, is about to go to the third slot
C19_Witness ==
    /\ pc = "gen"
    /\ gpc = "dirent"
    /\ stream = AppMemoryStream + 1
    /\ curr_idx = AppMemoryStream - 1
    /\ Len(StreamBody(AppMemoryStream, threads)) > 0
    /\ dirent.data_size = Len(StreamBody(stream, threads))

\* C19 as stated: each stream emitted so far, the app-memory list among
\* them, has been given one directory entry
C19_EveryStreamHasAnEntry ==
    (pc = "gen" /\ gpc = "flush" /\ stream >= 1) => curr_idx = stream


\* the header a reader decodes from the sink, at the place the dump began
SinkHeader ==
    LET at(n) == FromU32LE(sink, destination_start_offset + 4 * n)
    IN  [signature |-> at(0), version |-> at(1), stream_count |-> at(2),
         stream_directory_rva |-> at(3), checksum |-> at(4),
         time_date_stamp |-> at(5), flags |-> at(6) + at(7)]

\* the directory a reader finds in the sink is N default entries
SinkDirectoryIsDefault ==
    \A i \in 0..(num_writers - 1) :
        DecodeDirectory(sink, SinkSlot(i)) = DefaultDirectory

\* write_to_file has returned from its first call
FirstWriteDone == stream >= 1

\* C20: until the first write the sink is untouched and the buffer holds no
\* stream body; right after it the sink holds, from where the dump began,
\* exactly the complete header and 13 all-zero directory entries, and no
\* stream body has been generated; from then on the header in the sink is
\* the complete one
C20_HeaderAndDirectoryWrittenFirst ==
    /\ ~FirstWriteDone =>
          /\ Len(sink) = sink_pos
          /\ sink = [i \in 1..Len(sink) |-> 255]
          /\ Len(buffer) <= SizeOfHeader + num_writers * SizeOfDirectory
    /\ FirstWriteDone =>
          /\ Len(sink) >= SinkSlot(num_writers)
          /\ SinkHeader.signature = MD_HEADER_SIGNATURE
          /\ SinkHeader.version = MD_HEADER_VERSION
          /\ SinkHeader.stream_count = num_writers
          /\ SinkHeader.stream_directory_rva = SizeOfHeader
          /\ SinkHeader.stream_directory_rva = dir_position
          /\ SinkHeader.checksum = 0
          /\ SinkHeader.flags = 0
          /\ SinkHeader.time_date_stamp \in Timestamps
    /\ (FirstWriteDone /\ stream = 1 /\ gpc = "stream" /\ pc = "gen") =>
          /\ Len(sink) = SinkSlot(num_writers)
          /\ SinkDirectoryIsDefault
          /\ buffer = Slice(sink, destination_start_offset, Len(sink))
          /\ curr_idx = 0

\* the first write has been done into a sink that held StartOffset bytes and
\* the thread list is not yet generated
C20_Witness ==
    /\ pc = "gen"
    /\ gpc = "stream"
    /\ stream = 1
    /\ destination_start_offset = StartOffset
    /\ Len(sink) = StartOffset + SizeOfHeader + num_writers * SizeOfDirectory
    /\ SinkHeader.stream_count = num_writers
    /\ SinkDirectoryIsDefault

(***************************************************************************)
(* Properties of the ELF file identifier.                                  *)
(***************************************************************************)
\* the image has no build-id note and the section that is hashed is filled
\* with the byte f in the given pattern
HashedSectionIs(f, pattern) ==
    /\ elf.pc = "done"
    /\ elf.image.parsed
    /\ ~elf.image.build_id.present
    /\ TextSection(elf.image.section_headers) # 0
    /\ LET s == elf.image.section_headers[TextSection(elf.image.section_headers)]
       IN  s.fill = f /\ s.pattern = pattern /\ s.sh_size >= PageSize

\* C21: with no build-id note the identity is the XOR of the 256 blocks of
\* 16 bytes of the first page of the first allocated executable progbits
\* section: sixteen bytes of 0x00 when the page is filled with one byte
\* (0xAA among them), the number of blocks being even, and the first block
\* when the other blocks are zero
C21_IdentityIsXorFold ==
    \A f \in {170, 85} :
        /\ HashedSectionIs(f, "uniform") =>
              elf.result = [kind |-> "Ok", bytes |-> [i \in 1..MDGUIDSize |-> 0]]
        /\ HashedSectionIs(f, "first_block") =>
              elf.result = [kind |-> "Ok", bytes |-> [i \in 1..MDGUIDSize |-> f]]

\* the identifier of an image without a build-id note whose second section
\* is the text, a page of 0xAA, has been computed
C21_Witness ==
    /\ HashedSectionIs(170, "uniform")
    /\ TextSection(elf.image.section_headers) = 2
    /\ elf.result.kind = "Ok"
    /\ Len(elf.result.bytes) = MDGUIDSize

\* C21 as stated: the identity of a page of 0xAA is sixteen bytes of 0xAA
C21_IdentityIsSixteenAA ==
    HashedSectionIs(170, "uniform") =>
        elf.result = [kind |-> "Ok", bytes |-> [i \in 1..MDGUIDSize |-> 170]]

\* C32: elf_file_identifier_from_mapped_file checks the text section's offset
\* and size against the mapped slice: for every image, one whose text section
\* is shorter than 4096 bytes included, it returns an identity or an error
\* and does not panic
C32_IdentityOrErrorNeverPanic ==
    elf.pc = "done" => elf.result.kind \in {"Ok", "Err"}

(***************************************************************************)
(* Properties of ModuleMemory.                                             *)
(***************************************************************************)
\* a call of read on a memory of the given kind has returned
ReadDone(kind) == mm.pc = "done" /\ mm.op = "read" /\ mm.memory.kind = kind

\* C22: read on a Slice returns the bytes [offset, offset+length) when
\* offset+length does not exceed the slice's length, Overflow when
\* offset+length overflows a u64 and OutOfBounds otherwise
C22_SliceReadIsBoundsChecked ==
    ReadDone("Slice") =>
        IF mm.offset + mm.length >= 2 ^ U64Bits THEN mm.result = MMErr("Overflow")
        ELSE IF mm.offset + mm.length <= Len(mm.memory.bytes)
        THEN mm.result = MMOk(Slice(mm.memory.bytes, mm.offset, mm.offset + mm.length))
        ELSE mm.result = MMErr("OutOfBounds")

\* C23: read on a Process memory returns ZeroLengthProcessRead when length
\* is 0, Overflow when length > 0 and start_address + offset overflows,
\* issuing no read in either case; otherwise it issues one read_to_vec, at
\* start_address + offset
C23_ProcessReadChecks ==
    ReadDone("Process") =>
        IF mm.length = 0
        THEN mm.result = MMErr("ZeroLengthProcessRead") /\ mm.reads = << >>
        ELSE IF mm.memory.start_address + mm.offset >= 2 ^ U64Bits
        THEN mm.result = MMErr("Overflow") /\ mm.reads = << >>
        ELSE /\ Len(mm.reads) = 1
             /\ mm.reads[1].src = mm.memory.start_address + mm.offset

\* C24: for a Process memory with base b, absolute_to_relative(a) is
\* Some(a - b) unless a < b, when it is None; relative_to_absolute(r) is
\* Some(b + r) unless b + r overflows a u64, when it is None; each undoes the
\* other where it is defined; for a Slice both are the identity, never None
C24_AddressConversionsInverse ==
    mm.pc = "done" =>
        LET b == mm.memory.start_address
            some(v) == [some |-> TRUE, value |-> v]
        IN  /\ mm.op = "absolute_to_relative" =>
                  IF mm.memory.kind = "Process"
                  THEN /\ mm.converted.some <=> ~(mm.addr < b)
                       /\ mm.converted.some =>
                             /\ b + mm.converted.value = mm.addr
                             /\ mm.back = some(mm.addr)
                  ELSE mm.converted = some(mm.addr) /\ mm.back = some(mm.addr)
            /\ mm.op = "relative_to_absolute" =>
                  IF mm.memory.kind = "Process"
                  THEN /\ mm.converted.some <=> b + mm.addr < 2 ^ U64Bits
                       /\ mm.converted.some =>
                             /\ mm.converted.value = b + mm.addr
                             /\ mm.back = some(mm.addr)
                  ELSE mm.converted = some(mm.addr) /\ mm.back = some(mm.addr)

\* an absolute address above a non-zero base was made relative and back
C24_Witness ==
    /\ mm.pc = "done"
    /\ mm.op = "absolute_to_relative"
    /\ mm.memory.kind = "Process"
    /\ mm.memory.start_address > 0
    /\ mm.addr > mm.memory.start_address
    /\ mm.converted = [some |-> TRUE, value |-> mm.addr - mm.memory.start_address]
    /\ mm.back = [some |-> TRUE, value |-> mm.addr]

(***************************************************************************)
(* Properties of the Mach-O module reader.                                 *)
(***************************************************************************)
\* C25: find_section tells its failures apart: it returns Ok(None) only
\* when no read and no parse failure was met, ReadModuleMemory when a read
\* of the module memory failed and a parsing error when a parse failed, at a
\* load command or inside a segment
C25_FailuresReportedDistinctly ==
    mo.pc = "done" =>
        /\ mo.result = NoSection => mo.failures = << >>
        /\ mo.result.kind = "ReadModuleMemory" =>
              mo.failures # << >> /\ mo.failures[Len(mo.failures)] = "read"
        /\ mo.result.kind = "ScrollParsing" =>
              mo.failures # << >> /\ mo.failures[Len(mo.failures)] = "parse"

\* C39: find_section comes to an end for every header and every content of
\* the load commands, a load command whose cmdsize is 0 included: each turn
\* of the walk over the commands makes progress or stops
C39_FindSectionTerminates == <>(mo.pc = "done")

NothingWritten ==
    /\ buffer = << >>
    /\ Len(sink) = sink_pos
    /\ sink = [i \in 1..Len(sink) |-> 255]

\* C27: while the streams are generated threads_suspended is true and every
\* thread of the list is attached (or has died); nothing is written before
\* suspend_threads has returned; the threads are resumed only by the
\* resume_threads that follows the last write_to_file or by the exit of dump
\* with an error, and nothing is written after that
C27_ThreadsFrozenWhileGenerating ==
    /\ [](pc = "gen" =>
            /\ threads_suspended
            /\ threads # << >>
            /\ \A t \in Range(threads) : tstate[t] \in {"attached", "gone"})
    /\ [](pc \in {"start", "suspend", "check"} => NothingWritten)
    /\ [][/\ (threads_suspended /\ ~threads_suspended') =>
                \/ pc = "resume" /\ gpc = "done" /\ stream = NumStreams
                       /\ last_position_written_to_file = Len(buffer)
                \/ pc = "drop" /\ result \notin {"none", "ok"}
          /\ (\E t \in Range(threads) : tstate[t] = "attached" /\ tstate'[t] = "running")
                => pc \in {"resume", "drop"} /\ threads_suspended
          /\ pc \in {"resume", "drop", "returned"} =>
                /\ buffer' = buffer
                /\ sink' = sink]_vars

\* the last stream has been flushed and the three threads are still attached
C27_Witness ==
    /\ pc = "resume"
    /\ gpc = "done"
    /\ stream = NumStreams
    /\ threads_suspended
    /\ Len(threads) = NumThreads
    /\ \A t \in Tids : tstate[t] = "attached"
    /\ Len(sink) = destination_start_offset + Len(buffer)

\* the step is one of dump_dir_entry, of write_to_file's write
IsDumpDirEntry == pc = "gen" /\ gpc = "dirent" /\ gpc' = "flush"
IsFlush == pc = "gen" /\ gpc = "flush" /\ sink' # sink

\* C28: dump_dir_entry changes in the sink only the bytes of slot curr_idx,
\* at destination_start_offset + the slot's rva, leaves the cursor where it
\* was and adds one to curr_idx; so every write of write_to_file begins at
\* the end of the sink and changes nothing that was there
C28_DumpDirEntryFrame ==
    [][/\ IsDumpDirEntry =>
            /\ Len(sink') = Len(sink)
            /\ \A i \in 1..Len(sink) :
                  (i <= SinkSlot(curr_idx) \/ i > SinkSlot(curr_idx) + SizeOfDirectory)
                      => sink'[i] = sink[i]
            /\ Slice(sink', SinkSlot(curr_idx), SinkSlot(curr_idx) + SizeOfDirectory)
                 = EncodeDirectory(dirent)
            /\ sink_pos' = sink_pos
            /\ curr_idx' = curr_idx + 1
       /\ IsFlush =>
            /\ sink_pos = Len(sink)
            /\ Len(sink') > Len(sink)
            /\ SubSeq(sink', 1, Len(sink)) = sink
            /\ sink_pos' = Len(sink')]_vars

\* the entry of the last stream has been patched into a sink that began at
\* StartOffset and the cursor is at the end of the sink, where the body goes
C28_Witness ==
    /\ pc = "gen"
    /\ gpc = "flush"
    /\ stream = NumStreams
    /\ curr_idx = num_writers
    /\ destination_start_offset = StartOffset
    /\ sink_pos = Len(sink)
    /\ DecodeDirectory(sink, SinkSlot(num_writers - 1)) = dirent
    /\ dirent # DefaultDirectory

(***************************************************************************)
(* Properties of the stack sanitizer: what is zeroed, and the bitfield.    *)
(***************************************************************************)
\* the 0-based position at which the partial word at the top of the stack
\* begins: the words are counted from the first one sanitized
TopPartialWord ==
    Len(san.input) - ((Len(san.input) - AlignedOffset(san.sp_offset)) % WORD_SIZE)

\* C29: after sanitize_stack_copy the stack has its length, the bytes below
\* sp_offset and those of the partial word at the top are zero, and every
\* byte from sp_offset up to the partial word is the byte of the input or
\* the byte of the sentinel at its place in the word: none of them is zeroed
C29_ZeroesBelowStackPointerOnly ==
    san.pc = "done" =>
        /\ Len(san.stack_copy) = Len(san.input)
        /\ \A i \in 1..Len(san.input) :
              IF i <= san.sp_offset \/ i > TopPartialWord
              THEN san.stack_copy[i] = 0
              ELSE \/ san.stack_copy[i] = san.input[i]
                   \/ san.stack_copy[i]
                        = defaced[((i - 1 - AlignedOffset(san.sp_offset)) % WORD_SIZE) + 1]

\* the addresses the bitfield is asked about
ProbedAddresses ==
    SanWords \cup UNION {{m.start_address, m.start_address + m.size,
                          m.system_mapping_info.start_address} :
                            m \in {san.mappings[i] : i \in DOMAIN san.mappings}}

\* C30: the bitfield has 2048 bits; for every executable mapping the bit of
\* every address from start to start+size is set; an address whose bit is
\* clear lies in no executable mapping; and every bit that is set is the bit
\* of an address between start and start+size of an executable mapping
C30_BitfieldCoversExecutableMappings ==
    san.pc = "done" =>
        LET field == CouldHitMapping(san.mappings)
            executable == {i \in DOMAIN san.mappings : san.mappings[i].executable}
            bit(a) == ShiftRight(a) % BitfieldSize
        IN  /\ BitfieldSize = 2048
            /\ \A i \in executable :
                  \A a \in {san.mappings[i].start_address,
                            san.mappings[i].start_address + san.mappings[i].size} :
                      bit(a) \in field
            /\ \A a \in ProbedAddresses :
                  bit(a) \notin field =>
                      ~\E i \in executable : contains_address(san.mappings[i], a)
            /\ \A b \in field :
                  \E i \in executable :
                      /\ bit(san.mappings[i].start_address) <= b
                      /\ b <= bit(san.mappings[i].start_address + san.mappings[i].size)

(***************************************************************************)
(* Properties of the dumper's queries and of its suspend and resume calls. *)
(***************************************************************************)
\* C31: get_stack_info(sp) aligns sp down to a page boundary and returns
\* (aligned_sp, min(32768, M.start_address + M.size - aligned_sp)) for the
\* mapping M that find_mapping gives for aligned_sp: the range lies inside M
\* and is 1 to 32768 bytes long; when no mapping holds aligned_sp it is an error
C31_StackInfoInsideMapping ==
    (qry.pc = "ready" /\ qry.call = "get_stack_info" /\ qry.page_size > 0) =>
        LET aligned_sp == CHOOSE a \in (qry.arg - qry.page_size + 1)..qry.arg :
                              a % qry.page_size = 0
            holding == {i \in DOMAIN qry.mappings :
                          /\ qry.mappings[i].start_address <= aligned_sp
                          /\ aligned_sp < qry.mappings[i].start_address
                                            + qry.mappings[i].size}
        IN  IF holding = {} THEN qry.ret.kind = "Err"
            ELSE LET M == qry.mappings[SetMin(holding)]
                 IN  /\ qry.ret.kind = "Ok"
                     /\ qry.ret.stack_pointer = aligned_sp
                     /\ qry.ret.stack_len
                          = Min(32768, M.start_address + M.size - aligned_sp)
                     /\ qry.ret.stack_len \in 1..32768
                     /\ M.start_address <= qry.ret.stack_pointer
                     /\ qry.ret.stack_pointer + qry.ret.stack_len
                          <= M.start_address + M.size

\* an unaligned pointer in the main stack gave the full 32 KiB from its page
C31_Witness ==
    /\ qry.pc = "ready"
    /\ qry.call = "get_stack_info"
    /\ qry.ret.kind = "Ok"
    /\ qry.ret.stack_pointer < qry.arg
    /\ qry.ret.stack_len = 32768

\* C40: get_thread_info_by_index returns the 'index out of bounds' error for
\* every index that is not less than the length of the thread list, the index
\* equal to the length included, and looks at threads[index] only below it
C40_IndexPastEndIsError ==
    (qry.pc = "ready" /\ qry.call = "get_thread_info_by_index"
        /\ qry.arg >= Len(qry.threads)) =>
        /\ qry.ret.kind = "Err"
        /\ qry.ret.why = "Index out of bounds!"

\* generate_dump has returned Ok: dump is at or past its resume_threads
GenerateDumpSucceeded == pc = "resume" \/ result \in {"ok", "err_resume"}

\* C33: a generate_dump that succeeds writes exactly 13 directory entries, to
\* the slots 0 to 12 in increasing order and each slot once: curr_idx changes
\* only in dump_dir_entry, which writes the entry to slot curr_idx and adds
\* one to it, and curr_idx never exceeds the 13 slots that were reserved
C33_ThirteenEntriesInOrder ==
    /\ [](curr_idx \in 0..num_writers)
    /\ [](GenerateDumpSucceeded => curr_idx = 13)
    /\ [][/\ curr_idx' # curr_idx =>
                /\ IsDumpDirEntry
                /\ curr_idx < num_writers
                /\ curr_idx' = curr_idx + 1
          /\ IsDumpDirEntry =>
                /\ curr_idx' = curr_idx + 1
                /\ DecodeDirectory(sink', SinkSlot(curr_idx)) = dirent
                /\ \A i \in (curr_idx + 1)..(num_writers - 1) :
                      DecodeDirectory(sink', SinkSlot(i)) = DefaultDirectory]_vars

\* generate_dump has returned Ok and the last slot holds the entry of the
\* last stream
C33_Witness ==
    /\ pc = "resume"
    /\ curr_idx = num_writers
    /\ DecodeDirectory(sink, SinkSlot(num_writers - 1)).stream_type = StreamType(NumStreams)

\* C34: whatever calls of suspend_threads and resume_threads are made on a
\* dumper before it is dropped, suspend_threads twice with no resume_threads
\* between them included, no thread remains attached after the drop, and a
\* thread is never taken from the list while it is attached
C34_NoThreadLeftAttached ==
    /\ pc = "dropped" => \A t \in Tids : tstate[t] # "attached"
    /\ pc = "api" => \A t \in Tids : tstate[t] = "attached" => t \in Range(threads)

\* the step is a call of resume_threads, by the caller or by Drop
IsResumeThreads ==
    /\ Len(calls') = Len(calls) + 1
    /\ calls'[Len(calls')].op \in {"resume_threads", "drop"}

\* how often resume_thread was called on t in the calls so far
DetachCalls(t) ==
    Cardinality({<< i, j >> \in (DOMAIN calls) \X (1..NumThreads) :
                    j <= Len(calls[i].detach) /\ calls[i].detach[j] = t})

\* C35: resume_threads calls resume_thread on every thread of the list even
\* when an earlier detach failed, returns Ok only when every detach succeeded
\* and otherwise the error of the last detach that failed, and leaves
\* threads_suspended false in every case
C35_ResumeDetachesEveryThread ==
    [][(IsResumeThreads /\ calls'[Len(calls')].op = "resume_threads") =>
          LET c == calls'[Len(calls')]
              failing == {i \in DOMAIN threads : tstate[threads[i]] # "attached"}
          IN  /\ threads_suspended' = FALSE
              /\ threads_suspended =>
                    /\ c.detach = threads
                    /\ \A t \in Range(threads) :
                          tstate[t] = "attached" => tstate'[t] = "running"
                    /\ c.ok <=> failing = {}
                    /\ (result' = "ok") <=> failing = {}
                    /\ failing # {} =>
                          c.failed[Len(c.failed)]
                            = threads[CHOOSE i \in failing : \A j \in failing : j <= i]]_vars

\* the detach of the first and of the last of three threads failed, the one
\* between them was detached, and the error is the last thread's
C35_Witness ==
    /\ calls # << >>
    /\ calls[Len(calls)].op = "resume_threads"
    /\ calls[Len(calls)].detach = AllThreads
    /\ calls[Len(calls)].failed = << 1, NumThreads >>
    /\ tstate[2] = "running"
    /\ ~threads_suspended
    /\ result = "err_resume"

\* C36: resume_threads is idempotent: called while threads_suspended is
\* false it detaches nothing and returns Ok; and on the path of a dump that
\* succeeds (suspend_threads, resume_threads, drop) every thread that was
\* retained is detached exactly once
C36_ResumeIsIdempotent ==
    /\ [][(IsResumeThreads /\ ~threads_suspended) =>
             /\ calls'[Len(calls')].detach = << >>
             /\ calls'[Len(calls')].ok
             /\ tstate' = tstate
             /\ calls'[Len(calls')].op = "resume_threads" => result' = "ok"]_vars
    /\ []((/\ Len(calls) = 3
           /\ calls[1].op = "suspend_threads" /\ calls[1].ok
           /\ calls[2].op = "resume_threads"
           /\ calls[3].op = "drop") =>
              \A t \in Range(threads) : DetachCalls(t) = 1)

\* the path of a dump that succeeds has been gone: the three threads were
\* detached by resume_threads and the drop detached none
C36_Witness ==
    /\ Len(calls) = 3
    /\ calls[1].op = "suspend_threads" /\ calls[1].ok
    /\ calls[2].op = "resume_threads" /\ calls[2].ok /\ calls[2].detach = AllThreads
    /\ calls[3].op = "drop" /\ calls[3].detach = << >>
    /\ \A t \in Tids : tstate[t] = "running"

\* C37: suspend_thread returns at last for every thread and every sequence
\* of results of waitpid: Ok leads on to success, EINTR to a detach and an
\* error, and it also comes to an end when waitpid keeps returning another
\* error such as ECHILD
C37_SuspendThreadReturns == <>(st.pc = "done")
====
